---- MODULE Spec2Model ----
(***************************************************************************)
(* Model of the hello-mcp worker and of the user service of tech-island:   *)
(*   - the GCP tool operations listPods, getPodLogs, describeResource and  *)
(*     queryCloudLogs of gcp-tools.ts, each run by its MCP tool handler,   *)
(*     one step per awaited HTTP exchange, and HelloMCP.init;              *)
(*   - the Google OAuth handler (handleAuthorize, handleCallback);         *)
(*   - base64UrlEncode, byte by byte;                                      *)
(*   - the /api/users/me endpoints of the user service, one step per       *)
(*     request (each runs at most one SQL statement).                      *)
(*   - the earlier user service with GET /api/users/:email and the         *)
(*     paginated GET /api/users, whose two queries are two steps.          *)
(* Text is a sequence of string pieces: a template literal is the          *)
(* concatenation of its pieces, so "the message contains the body" is      *)
(* "the body's pieces occur in the message's pieces".                      *)
(***************************************************************************)
EXTENDS Integers, Sequences, FiniteSets, TLC

\* Number of tool invocations that may be in flight together (SpecConc).
NumInv == 2
\* Longest entries list of a Cloud Logging response (Spec).
MaxEntries == 2
\* Number of /callback requests that may be in flight together (SpecOAuth).
NumCb == 2
\* Number of state keys /authorize hands out (SpecOAuth).
MaxAuthorize == 1
\* Longest byte string handed to base64UrlEncode (SpecCodec).
MaxBytes == 3
\* Number of requests the user service serves (SpecUsers).
MaxRequests == 3

\* JavaScript's undefined, for an optional string that is not there.
Absent == "<undefined>"

Inv == 1..NumInv
Cb == 1..NumCb
StateKeys == 1..MaxAuthorize

VARIABLES
    env,          \* the worker's environment: GCP_SERVICE_ACCOUNT_KEY
    config,       \* gcpConfig built once by HelloMCP.init from the environment
    registered,   \* the names of the tools HelloMCP.init registered
    clock,        \* what Date.now() gives, in milliseconds
    info,         \* what the server_info handler returned last
    pc,           \* pc[i]: where invocation i is: idle, token, cluster, k8s, logging, done
    args,         \* args[i]: the arguments invocation i was called with
    reqs,         \* reqs[i]: the HTTP requests invocation i has issued, in order
    resps,        \* resps[i]: the HTTP responses invocation i has received, in order
    accessToken,  \* accessToken[i]: the local accessToken of invocation i (0: none yet)
    out,          \* out[i]: what the operation returned or threw
    res,          \* res[i]: what the tool handler returned to the MCP client
    issued,       \* upstream: how many access tokens Google has issued so far
    kv,           \* OAUTH_KV: kv[k] is the value stored under `auth:${k}`
    nextKey,      \* the next state key crypto.randomUUID() gives (keys never repeat)
    authorized,   \* the responses /authorize has given
    cb,           \* cb[c]: the locals of /callback request c and where it is
    completions,  \* the calls of OAUTH_PROVIDER.completeAuthorization made so far
    input,        \* the bytes handed to base64UrlEncode
    encoded,      \* what base64UrlEncode returned for them
    users,        \* the users table: users[e] is the row whose email is e
    served,       \* how many requests the user service has answered
    last,         \* the request the user service answered last, and its response
    bucket,       \* BUCKET_NAME of the user service
    listing       \* the GET /api/users request of the earlier user service, and its response

toolVars == <<env, config, registered, clock, info, pc, args, reqs, resps, accessToken, out, res, issued>>
oauthVars == <<kv, nextKey, authorized, cb, completions>>
codecVars == <<input, encoded>>
userVars == <<users, served, last, bucket, listing>>
vars == <<toolVars, oauthVars, codecVars, userVars>>

\* What a step of the tool handlers, and of the OAuth handler, leaves alone.
besidesTools == <<oauthVars, codecVars, userVars>>
besidesOAuth == <<toolVars, codecVars, userVars>>

(***************************************************************************)
(* Text                                                                    *)
(***************************************************************************)
\* sub occurs in text as a run of consecutive pieces (String.includes).
Contains(text, sub) ==
    \E k \in 0..(Len(text) - Len(sub)) :
        \A n \in 1..Len(sub) : text[k + n] = sub[n]

\* Array.prototype.reverse
RECURSIVE Reverse(_)
Reverse(s) == IF s = <<>> THEN <<>> ELSE Append(Reverse(Tail(s)), Head(s))

\* a || b on optional strings: the empty string and undefined are falsy.
Falsy(x) == x = Absent \/ x = ""
OrElse(a, b) == IF Falsy(a) THEN b ELSE a

\* JSON.stringify of an optional payload: undefined stringifies to undefined,
\* which a template literal renders as the text "undefined".
JSONstringify(x) == IF x = Absent THEN Absent ELSE x
Interpolate(x) == IF x = Absent THEN "undefined" ELSE x

(***************************************************************************)
(* Configuration and credentials                                           *)
(***************************************************************************)
\* One member of a JSON object's text, with the comma after it; a member that
\* is not there has no text.
member(name, value) == IF value = Absent THEN <<>> ELSE <<"\"", name, "\":\"", value, "\",">>

\* The text of a service-account key file with these members.
keyFile(client_email, private_key, project_id) ==
    <<"{">> \o member("client_email", client_email) \o member("private_key", private_key)
            \o member("project_id", project_id) \o <<"\"type\":\"service_account\"}">>

\* A value of GCP_SERVICE_ACCOUNT_KEY (the raw serviceAccountKey string):
\* present says whether the variable is set, raw is its text, wellFormed
\* whether JSON.parse accepts the text, unexpectedAt the piece of the text at
\* which JSON.parse meets a token it does not expect (0: the text ends early),
\* and the other fields are what the text parses to.
KeyValid ==
    [present |-> TRUE, raw |-> keyFile("sa@proj.iam", "PEM", "proj-1"), wellFormed |-> TRUE,
     unexpectedAt |-> 0, client_email |-> "sa@proj.iam", private_key |-> "PEM", project_id |-> "proj-1"]
\* a key file cut short
KeyNotJson ==
    [present |-> TRUE, raw |-> <<"{", "\"client_email\":\"sa@pr">>, wellFormed |-> FALSE,
     unexpectedAt |-> 0, client_email |-> Absent, private_key |-> Absent, project_id |-> Absent]
\* a key file stored base64-encoded: its first ten characters, and the rest
KeyBase64 ==
    [present |-> TRUE, raw |-> <<"ewogICJ0eX", "BlIjogInNlcnZpY2VfYWNjb3VudCIs">>, wellFormed |-> FALSE,
     unexpectedAt |-> 1, client_email |-> Absent, private_key |-> Absent, project_id |-> Absent]
KeyNoEmail ==
    [present |-> TRUE, raw |-> keyFile(Absent, "PEM", "proj-1"), wellFormed |-> TRUE,
     unexpectedAt |-> 0, client_email |-> Absent, private_key |-> "PEM", project_id |-> "proj-1"]
KeyNoPrivateKey ==
    [present |-> TRUE, raw |-> keyFile("sa@proj.iam", Absent, "proj-1"), wellFormed |-> TRUE,
     unexpectedAt |-> 0, client_email |-> "sa@proj.iam", private_key |-> Absent, project_id |-> "proj-1"]
KeyBadPem ==
    [present |-> TRUE, raw |-> keyFile("sa@proj.iam", "garbage", "proj-1"), wellFormed |-> TRUE,
     unexpectedAt |-> 0, client_email |-> "sa@proj.iam", private_key |-> "garbage", project_id |-> "proj-1"]
\* GCP_SERVICE_ACCOUNT_KEY not set, and set to the empty string
KeyUnset ==
    [present |-> FALSE, raw |-> <<>>, wellFormed |-> FALSE,
     unexpectedAt |-> 0, client_email |-> Absent, private_key |-> Absent, project_id |-> Absent]
KeyEmpty ==
    [present |-> TRUE, raw |-> <<>>, wellFormed |-> FALSE,
     unexpectedAt |-> 0, client_email |-> Absent, private_key |-> Absent, project_id |-> Absent]

ServiceAccountKeys == {KeyValid, KeyNotJson, KeyBase64, KeyNoEmail, KeyNoPrivateKey, KeyBadPem}

\* The environments of the worker.
Env(key) == [GCP_SERVICE_ACCOUNT_KEY |-> key]

GCPConfig(key) ==
    [serviceAccountKey |-> key, projectId |-> "tech-island-447220",
     clusterName |-> "tech-island", region |-> "europe-west2"]

\* gcpConfig is null
NoConfig ==
    [serviceAccountKey |-> KeyUnset, projectId |-> Absent, clusterName |-> Absent, region |-> Absent]

\* A key accepted whenever the variable is set, the empty string included.
keyConfiguredIfSet(key) == key.present

\* this.env.GCP_SERVICE_ACCOUNT_KEY ? ... : null  (undefined and "" are falsy)
keyConfigured(key) == key.present /\ key.raw # <<>>

\* HelloMCP.init's gcpConfig.
gcpConfigOf(e) ==
    IF keyConfigured(e.GCP_SERVICE_ACCOUNT_KEY) THEN GCPConfig(e.GCP_SERVICE_ACCOUNT_KEY) ELSE NoConfig

SimpleTools == {"hello", "echo", "server_info"}
GCPTools == {"get_pods", "get_pod_logs", "describe_resource", "query_cloud_logs"}

\* The tools HelloMCP.init registers with this.server.tool.
registeredTools(e) ==
    SimpleTools \cup (IF gcpConfigOf(e) # NoConfig THEN GCPTools ELSE {})

NoMsg == <<>>

\* The message of the SyntaxError JSON.parse throws on a key that is no JSON:
\* V8 quotes the text around the unexpected token (ten characters).
JSONparseError(key) ==
    IF key.unexpectedAt = 0 THEN <<"Unexpected end of JSON input">>
    ELSE <<"Unexpected token, \"", key.raw[key.unexpectedAt], "\"... is not valid JSON">>

\* Date.now() at the calls of the model, in milliseconds.
Times == {0, 999, 1500, 7200001}

\* Math.round in place of Math.floor.
epochSecondsRounded(ms) == (ms + 500) \div 1000

\* Math.floor(Date.now() / 1000)
epochSeconds(ms) == ms \div 1000

NoClaims == [iss |-> Absent, scope |-> Absent, aud |-> Absent, exp |-> 0, iat |-> 0]

\* getAccessToken's claims at time ms; JSON.stringify leaves an undefined iss
\* out of the assertion.
jwtClaims(credentials, ms) ==
    LET now == epochSeconds(ms)
        expiry == now + 3600
    IN  [iss |-> credentials.client_email,
         scope |-> "https://www.googleapis.com/auth/cloud-platform",
         aud |-> "https://oauth2.googleapis.com/token",
         exp |-> expiry, iat |-> now]

\* signJWT: undefined.replace throws a TypeError, atob / importKey reject a key
\* that is no PKCS8 PEM; otherwise the signature is produced.
signJWT(privateKeyPem) ==
    IF privateKeyPem = Absent THEN <<"Cannot read properties of undefined (reading 'replace')">>
    ELSE IF privateKeyPem # "PEM" THEN <<"Invalid keyData">>
    ELSE NoMsg

\* What the operation's prelude throws before the token request is issued:
\* JSON.parse(config.serviceAccountKey), then getAccessToken up to its fetch.
\* NoMsg when nothing is thrown.  client_email is only copied into the claims.
PreludeError(cfg) ==
    IF ~cfg.serviceAccountKey.wellFormed THEN JSONparseError(cfg.serviceAccountKey)
    ELSE signJWT(cfg.serviceAccountKey.private_key)

(***************************************************************************)
(* Arguments                                                               *)
(***************************************************************************)
Tools == {"listPods", "getPodLogs", "describeResource", "queryCloudLogs"}

\* The spellings of the kinds the model calls with: lower case, capitalized,
\* upper case.
Casings ==
    {<<"pod", "Pod", "POD">>, <<"pods", "Pods", "PODS">>,
     <<"deployment", "Deployment", "DEPLOYMENT">>, <<"deployments", "Deployments", "DEPLOYMENTS">>,
     <<"service", "Service", "SERVICE">>, <<"services", "Services", "SERVICES">>,
     <<"ingress", "Ingress", "INGRESS">>, <<"ingresses", "Ingresses", "INGRESSES">>,
     <<"widget", "Widget", "WIDGET">>}

\* A lookup of the kind as it was spelled.
toLowerCaseIdentity(kind) == kind

\* String.prototype.toLowerCase on the kinds the model calls with.
toLowerCase(kind) ==
    IF \E t \in Casings : kind \in {t[2], t[3]}
    THEN (CHOOSE t \in Casings : kind \in {t[2], t[3]})[1]
    ELSE kind

\* describeResource's apiPaths table: the path for a lower-cased kind,
\* <<>> when the table has no such key.
apiPaths(key, namespace, name) ==
    CASE key \in {"pod", "pods"} -> <<"/api/v1/namespaces/", namespace, "/pods/", name>>
      [] key \in {"deployment", "deployments"} -> <<"/apis/apps/v1/namespaces/", namespace, "/deployments/", name>>
      [] key \in {"service", "services"} -> <<"/api/v1/namespaces/", namespace, "/services/", name>>
      [] key \in {"ingress", "ingresses"} -> <<"/apis/networking.k8s.io/v1/namespaces/", namespace, "/ingresses/", name>>
      [] OTHER -> <<>>

\* The describe_resource tool's schema: z.enum(["pod","deployment","service","ingress"]).
KindEnum == {"pod", "deployment", "service", "ingress"}

NoArgs ==
    [tool |-> "none", kind |-> Absent, name |-> Absent, namespace |-> Absent, container |-> Absent,
     labelSelector |-> Absent, filter |-> Absent]

ToolArgs(tool, kind, name, container) ==
    [tool |-> tool, kind |-> kind, name |-> name, namespace |-> "apps", container |-> container,
     labelSelector |-> Absent, filter |-> IF tool = "queryCloudLogs" THEN "severity>=ERROR" ELSE Absent]

\* listPods(config, "apps", labelSelector)
ListPodsArgs(labelSelector) ==
    [ToolArgs("listPods", Absent, Absent, Absent) EXCEPT !.labelSelector = labelSelector]

\* The calls of Spec: every tool, kinds in and out of the table, with and
\* without a container.
AllArgs ==
    {ListPodsArgs(s) : s \in {Absent, "app=web"}}
    \cup {ToolArgs("queryCloudLogs", Absent, Absent, Absent)}
    \cup {ToolArgs("getPodLogs", Absent, "web-1", c) : c \in {Absent, "app"}}
    \cup {ToolArgs("describeResource", t[n], "my-svc", Absent) : t \in Casings, n \in 1..3}

\* The calls of SpecConc.
ConcArgs ==
    {ToolArgs("listPods", Absent, Absent, Absent), ToolArgs("queryCloudLogs", Absent, Absent, Absent),
     ToolArgs("getPodLogs", Absent, "web-1", Absent)}
    \cup {ToolArgs("describeResource", k, "my-svc", Absent) : k \in {"service", "widget"}}

\* Whether the call can come through the MCP tool handler (its schema accepts
\* the arguments); a call it rejects is a direct call of the exported function.
ViaHandler(a) == a.tool # "describeResource" \/ a.kind \in KindEnum

(***************************************************************************)
(* HTTP                                                                    *)
(***************************************************************************)
\* A request as the upstream sees it: the endpoint, the bearer token of its
\* Authorization header (0: no such header), the URL, and what its body
\* carries: the claims of the assertion (token request) or the filter
\* (entries:list request).
Request(ep, bearer, url, claims, filter) ==
    [ep |-> ep, bearer |-> bearer, url |-> url, claims |-> claims, filter |-> filter]

\* The filter of listPods' entries:list request.
listPodsFilter(a, cfg) ==
    <<"resource.type=\"k8s_container\" resource.labels.namespace_name=\"", a.namespace,
      "\" resource.labels.cluster_name=\"", cfg.clusterName, "\"">>

\* The filter of getPodLogs' entries:list request.
getPodLogsFilter(a, cfg) ==
    <<"resource.type=\"k8s_container\" resource.labels.pod_name=\"", a.name,
      "\" resource.labels.namespace_name=\"", a.namespace,
      "\" resource.labels.cluster_name=\"", cfg.clusterName, "\"">>
    \o (IF Falsy(a.container) THEN <<>>
        ELSE <<" resource.labels.container_name=\"", a.container, "\"">>)

\* The filter the operation called with a sends to entries:list.
requestFilter(a, cfg) ==
    CASE a.tool = "listPods" -> listPodsFilter(a, cfg)
      [] a.tool = "getPodLogs" -> getPodLogsFilter(a, cfg)
      [] OTHER -> <<a.filter>>

\* A log entry of a Cloud Logging response.  A payload is held as its JSON text.
Entry(ts, sev, text, json, proto, pod, container) ==
    [timestamp |-> ts, severity |-> sev, textPayload |-> text, jsonPayload |-> json,
     protoPayload |-> proto, type |-> "k8s_container", pod_name |-> pod,
     container_name |-> container, namespace_name |-> IF pod = Absent THEN Absent ELSE "apps",
     labels |-> IF sev = Absent THEN Absent ELSE "{\"k\":\"v\"}"]

E1 == Entry("2024-05-01T10:00:02Z", "ERROR", "boom\nat line 2", Absent, Absent, "web-1", "app")
E2 == Entry("2024-05-01T10:00:01Z", Absent, Absent, "{\"msg\":\"ok\"}", Absent, "web-1", "sidecar")
E3 == Entry(Absent, "INFO", "", Absent, "{\"@type\":\"audit\"}", Absent, Absent)
E4 == Entry("2024-05-01T10:00:00Z", "DEBUG", "", Absent, Absent, "db-0", Absent)

Entries == {E1, E2, E3, E4}

\* The sequences over S of length at most n.
SeqUpTo(S, n) == UNION {[1..k -> S] : k \in 0..n}

\* A response: kind is "ok" (2xx), "http" (non-2xx) or "neterr" (fetch rejects);
\* json says whether response.json() can parse the body; text is the body of a
\* non-2xx response; the other fields are what a 2xx JSON body parses to.
Response(kind, json, text, token, hasEntries, entries, endpoint, doc) ==
    [kind |-> kind, json |-> json, text |-> text, access_token |-> token,
     hasEntries |-> hasEntries, entries |-> entries, endpoint |-> endpoint, doc |-> doc]

NetworkError == Response("neterr", FALSE, Absent, 0, FALSE, <<>>, Absent, Absent)
HttpError(text) == Response("http", FALSE, text, 0, FALSE, <<>>, Absent, Absent)
NotJson == Response("ok", FALSE, Absent, 0, FALSE, <<>>, Absent, Absent)
TokenOk(token) == Response("ok", TRUE, Absent, token, FALSE, <<>>, Absent, Absent)
ClusterOk == Response("ok", TRUE, Absent, 0, FALSE, <<>>, "34.105.0.7", Absent)
K8sOk == Response("ok", TRUE, Absent, 0, FALSE, <<>>, Absent, "{\"kind\":\"Service\"}")
NoEntries == Response("ok", TRUE, Absent, 0, FALSE, <<>>, Absent, Absent)
LogsOk(entries) == Response("ok", TRUE, Absent, 0, TRUE, entries, Absent, Absent)

\* The text body of a 2xx entries:list response, which response.json() parses:
\* an object with or without an entries array.
entryText(e) ==
    <<"{\"timestamp\":", e.timestamp, ",\"severity\":", e.severity,
      ",\"textPayload\":", e.textPayload, ",\"jsonPayload\":", e.jsonPayload,
      ",\"protoPayload\":", e.protoPayload, ",\"pod_name\":", e.pod_name,
      ",\"container_name\":", e.container_name, "}">>

RECURSIVE entriesText(_)
entriesText(entries) ==
    IF entries = <<>> THEN <<>> ELSE entryText(Head(entries)) \o entriesText(Tail(entries))

bodyText(r) ==
    IF ~r.json THEN <<"<html>">>
    ELSE IF ~r.hasEntries THEN <<"{}">>
    ELSE <<"{\"entries\":[">> \o entriesText(r.entries) \o <<"]}">>

\* The upstream behaviours a specification draws from: the calls, the ways a
\* request can fail, and the bodies of a successful entries:list.
AllData ==
    [args |-> AllArgs,
     fails |-> {NetworkError, NotJson, HttpError("{\"error\":\"invalid_grant\"}"), HttpError("upstream unavailable")},
     logs |-> {NoEntries} \cup {LogsOk(s) : s \in SeqUpTo(Entries, MaxEntries)}]

ConcData ==
    [args |-> ConcArgs,
     fails |-> {NetworkError, HttpError("{\"error\":\"invalid_grant\"}")},
     logs |-> {NoEntries, LogsOk(<<E1>>)}]

\* What `await fetch`, the `!response.ok` check with its message
\* `${prefix}${await response.text()}`, and `await response.json()` throw on
\* response r; NoMsg when the body is handed on.
responseError(r, prefix) ==
    IF r.kind = "neterr" THEN <<"fetch failed">>
    ELSE IF r.kind = "http" THEN prefix \o <<r.text>>
    ELSE IF ~r.json THEN <<"Unexpected token in JSON">>
    ELSE NoMsg

\* getAccessToken with a message that leaves the response body out.
getAccessTokenErrorNoBody(r) ==
    IF r.kind = "http" THEN <<"Failed to get access token">> ELSE responseError(r, <<>>)

\* getAccessToken after its fetch: what it throws on response r.
getAccessTokenError(r) == responseError(r, <<"Failed to get access token: ">>)

\* getCluster without its `!response.ok` check.
getClusterErrorUnchecked(r) ==
    IF r.kind = "http" THEN NoMsg ELSE responseError(r, <<>>)

\* getCluster after its fetch: what it throws on response r.
getClusterError(r) == responseError(r, <<"Failed to get cluster: ">>)

\* A token kept in a module-level variable that every exchange overwrites.
bearerCached(own, latest) == latest

\* The token of `Authorization: Bearer ${accessToken}`: the invocation's own
\* local accessToken; latest is the token the upstream issued last.
bearer(own, latest) == own

(***************************************************************************)
(* What the operations return                                              *)
(***************************************************************************)
\* The outcome of an operation: status "ok" with the value's parts, status
\* "error" with the thrown Error's message, status "none" while it runs.
Outcome(status, msg, kind, text, items, total, note, logs, doc) ==
    [status |-> status, msg |-> msg, kind |-> kind, text |-> text, items |-> items,
     total |-> total, note |-> note, logs |-> logs, doc |-> doc]

NoOut == Outcome("none", NoMsg, "none", <<>>, <<>>, 0, Absent, <<>>, Absent)
Failure(msg) == Outcome("error", msg, "none", <<>>, <<>>, 0, Absent, <<>>, Absent)

\* Set.add on the containers of a pod, kept in insertion order.
addContainer(containers, c) ==
    IF \E k \in 1..Len(containers) : containers[k] = c THEN containers ELSE Append(containers, c)

\* listPods' loop over data.entries: podMap as the list of its values in
\* insertion order.
RECURSIVE podMap(_, _, _)
podMap(entries, namespace, acc) ==
    IF entries = <<>> THEN acc
    ELSE LET entry == Head(entries)
             podName == entry.pod_name
             seen == {k \in 1..Len(acc) : acc[k].name = podName}
         IN  IF Falsy(podName) THEN podMap(Tail(entries), namespace, acc)
             ELSE IF seen = {}
                  THEN podMap(Tail(entries), namespace,
                              Append(acc, [name |-> podName,
                                           namespace |-> OrElse(entry.namespace_name, namespace),
                                           containers |-> <<entry.container_name>>,
                                           lastSeen |-> entry.timestamp]))
                  ELSE LET k == CHOOSE k \in seen : TRUE
                       IN  podMap(Tail(entries), namespace,
                                  [acc EXCEPT ![k].containers = addContainer(@, entry.container_name)])

\* listPods with a total that counts the log entries.
listPodsResultCountsEntries(a, data) ==
    IF ~data.hasEntries
    THEN Outcome("ok", NoMsg, "pods", <<>>, <<>>, 0,
                 "No recent pod activity found in logs. Pods may exist but have no recent log entries.",
                 <<>>, Absent)
    ELSE Outcome("ok", NoMsg, "pods", <<>>, podMap(data.entries, a.namespace, <<>>), Len(data.entries),
                 "Pod list retrieved from Cloud Logging (shows pods with recent log activity)",
                 <<>>, Absent)

\* listPods from `const data = await response.json()` on.
listPodsResult(a, data) ==
    IF ~data.hasEntries
    THEN Outcome("ok", NoMsg, "pods", <<>>, <<>>, 0,
                 "No recent pod activity found in logs. Pods may exist but have no recent log entries.",
                 <<>>, Absent)
    ELSE LET items == podMap(data.entries, a.namespace, <<>>)
         IN  Outcome("ok", NoMsg, "pods", <<>>, items, Len(items),
                     "Pod list retrieved from Cloud Logging (shows pods with recent log activity)",
                     <<>>, Absent)

\* One formatted line of getPodLogs: `[${timestamp}] [${severity}] ${message}`.
formatEntry(entry) ==
    LET timestamp == OrElse(entry.timestamp, "")
        severity == OrElse(entry.severity, "INFO")
        message == OrElse(entry.textPayload,
                          JSONstringify(OrElse(entry.jsonPayload, entry.protoPayload)))
    IN  <<"[", timestamp, "] [", severity, "] ", Interpolate(message)>>

\* Array.prototype.join('\n') on lines of text.
RECURSIVE join(_)
join(lines) ==
    IF lines = <<>> THEN <<>>
    ELSE IF Len(lines) = 1 THEN lines[1]
    ELSE lines[1] \o <<"\n">> \o join(Tail(lines))

\* getPodLogs without its reverse().
logOrderKept(entries) == entries

\* The order in which getPodLogs formats data.entries.
logOrder(entries) == Reverse(entries)

\* getPodLogs from `const data = await response.json()` on.
getPodLogsResult(a, data) ==
    IF ~data.hasEntries \/ Len(data.entries) = 0
    THEN Outcome("ok", NoMsg, "text",
                 <<"No log entries found for pod ", a.name>>
                     \o (IF Falsy(a.container) THEN <<>> ELSE <<" container ", a.container>>),
                 <<>>, 0, Absent, <<>>, Absent)
    ELSE LET ordered == logOrder(data.entries)
             logs == [k \in 1..Len(ordered) |-> formatEntry(ordered[k])]
         IN  Outcome("ok", NoMsg, "text", join(logs), <<>>, 0, Absent, <<>>, Absent)

\* The message of getPodLogs: textPayload || JSON.stringify(...).
logMessageTruthy(entry) ==
    OrElse(entry.textPayload, JSONstringify(OrElse(entry.jsonPayload, entry.protoPayload)))

\* queryCloudLogs' message of an entry:
\* typeof entry.textPayload === "string" ? entry.textPayload : JSON.stringify(...)
logMessage(entry) ==
    IF entry.textPayload # Absent THEN entry.textPayload
    ELSE JSONstringify(OrElse(entry.jsonPayload, entry.protoPayload))

\* queryCloudLogs' map callback.
logRecord(entry) ==
    [timestamp |-> entry.timestamp, severity |-> entry.severity, resource |-> entry.type,
     message |-> logMessage(entry), labels |-> entry.labels]

\* queryCloudLogs that takes a response without entries for a failure.
queryCloudLogsResultStrict(data) ==
    IF ~data.hasEntries \/ data.entries = <<>>
    THEN Failure(<<"No entries in response">>)
    ELSE Outcome("ok", NoMsg, "logs", <<>>, <<>>, 0, Absent,
                 [k \in 1..Len(data.entries) |-> logRecord(data.entries[k])], Absent)

\* queryCloudLogs from `const data = await response.json()` on.
queryCloudLogsResult(data) ==
    IF ~data.hasEntries
    THEN Outcome("ok", NoMsg, "logs", <<>>, <<>>, 0, Absent, <<>>, Absent)
    ELSE Outcome("ok", NoMsg, "logs", <<>>, <<>>, 0, Absent,
                 [k \in 1..Len(data.entries) |-> logRecord(data.entries[k])], Absent)

\* describeResource's `return await response.json()`.
describeResourceResult(data) ==
    Outcome("ok", NoMsg, "json", <<>>, <<>>, 0, Absent, <<>>, data.doc)

(***************************************************************************)
(* The MCP tool handlers                                                   *)
(***************************************************************************)
\* What a tool handler returns: returned is FALSE while it runs (and when an
\* exception leaves it); text is the content's text when it is no JSON, json
\* is the value whose JSON.stringify(value, null, 2) is the content's text.
ToolResult(returned, isError, text, json) ==
    [returned |-> returned, isError |-> isError, text |-> text, json |-> json]

NoRes == ToolResult(FALSE, FALSE, <<>>, NoOut)

\* The prefix of the text a handler's catch block builds.
errorPrefix(a) ==
    CASE a.tool = "listPods" -> <<"Error getting pods: ">>
      [] a.tool = "getPodLogs" -> <<"Error getting pod logs: ">>
      [] a.tool = "describeResource" -> <<"Error describing ", a.kind, "/", a.name, ": ">>
      [] a.tool = "queryCloudLogs" -> <<"Error querying logs: ">>

\* The handlers with a get_pod_logs catch block that forgets isError.
toolHandlerNoFlag(a, o) ==
    IF o.status = "error"
    THEN ToolResult(TRUE, a.tool # "getPodLogs", errorPrefix(a) \o o.msg, NoOut)
    ELSE IF a.tool = "getPodLogs" THEN ToolResult(TRUE, FALSE, o.text, NoOut)
    ELSE ToolResult(TRUE, FALSE, <<>>, o)

\* The try / catch of the four handlers of HelloMCP.init, around outcome o
\* of the operation called with a.
toolHandler(a, o) ==
    IF o.status = "error" THEN ToolResult(TRUE, TRUE, errorPrefix(a) \o o.msg, NoOut)
    ELSE IF a.tool = "getPodLogs" THEN ToolResult(TRUE, FALSE, o.text, NoOut)
    ELSE ToolResult(TRUE, FALSE, <<>>, o)

(***************************************************************************)
(* The tool invocations, one step per awaited exchange                     *)
(***************************************************************************)
TokenUrl == <<"https://oauth2.googleapis.com/token">>
LoggingUrl == <<"https://logging.googleapis.com/v2/entries:list">>

\* projectId = config.projectId || credentials.project_id
projectIdOf(cfg) == OrElse(cfg.projectId, cfg.serviceAccountKey.project_id)

ClusterUrl(cfg) ==
    <<"https://container.googleapis.com/v1/projects/", projectIdOf(cfg), "/locations/",
      cfg.region, "/clusters/", cfg.clusterName>>

\* The operation of invocation i, called with a, ends with outcome o, and its
\* handler (when the call came through one) returns.
Finished(i, a, o) ==
    /\ pc' = [pc EXCEPT ![i] = "done"]
    /\ out' = [out EXCEPT ![i] = o]
    /\ res' = [res EXCEPT ![i] = IF ViaHandler(a) THEN toolHandler(a, o) ELSE NoRes]
    /\ reqs' = reqs

\* A failed request is issued once more before the operation gives up.
ThrowRetry(i, a, msg) ==
    IF reqs[i] # <<>> /\ Len(reqs[i]) < 4 /\ Len(resps'[i]) = Len(reqs[i])
    THEN /\ reqs' = [reqs EXCEPT ![i] = Append(@, reqs[i][Len(reqs[i])])]
         /\ UNCHANGED <<pc, out, res>>
    ELSE Finished(i, a, Failure(msg))

\* A failure that is fatal to every invocation in flight.
ThrowAbortsAll(i, a, msg) ==
    LET hit == {j \in Inv : j = i \/ pc[j] \notin {"idle", "done"}}
    IN  /\ pc' = [j \in Inv |-> IF j \in hit THEN "done" ELSE pc[j]]
        /\ out' = [j \in Inv |-> IF j \in hit THEN Failure(msg) ELSE out[j]]
        /\ res' = [j \in Inv |->
                     IF j \in hit
                     THEN (IF ViaHandler(IF j = i THEN a ELSE args[j])
                           THEN toolHandler(IF j = i THEN a ELSE args[j], Failure(msg)) ELSE NoRes)
                     ELSE res[j]]
        /\ reqs' = reqs

\* An Error with message msg is thrown inside the operation of invocation i:
\* nothing in gcp-tools.ts catches it, so it ends the operation.
Throw(i, a, msg) == Finished(i, a, Failure(msg))

\* A tool is called (the GCP tools exist only with a gcpConfig):
\* JSON.parse(config.serviceAccountKey), then getAccessToken builds and signs
\* the assertion and issues the token request.
Start(i, D) ==
    /\ pc[i] = "idle"
    /\ config # NoConfig
    /\ \E a \in D.args :
        /\ args' = [args EXCEPT ![i] = a]
        /\ IF PreludeError(config) # NoMsg
           THEN Throw(i, a, PreludeError(config))
           ELSE /\ pc' = [pc EXCEPT ![i] = "token"]
                /\ reqs' = [reqs EXCEPT ![i] = Append(@, Request("token", 0, TokenUrl,
                                                  jwtClaims(config.serviceAccountKey, clock), <<>>))]
                /\ UNCHANGED <<out, res>>
    /\ UNCHANGED <<env, config, registered, clock, info, resps, accessToken, issued>>
    /\ UNCHANGED besidesTools

\* The token endpoint answers: getAccessToken returns data.access_token or
\* throws; the operation goes on to getCluster's request (describeResource) or
\* to its entries:list request (the other three).
TokenResponse(i, D) ==
    /\ pc[i] = "token"
    /\ \E r \in D.fails \cup {TokenOk(issued + 1)} :
        /\ resps' = [resps EXCEPT ![i] = Append(@, r)]
        /\ issued' = IF r.access_token # 0 THEN r.access_token ELSE issued
        /\ IF getAccessTokenError(r) # NoMsg
           THEN Throw(i, args[i], getAccessTokenError(r)) /\ UNCHANGED accessToken
           ELSE /\ accessToken' = [accessToken EXCEPT ![i] = r.access_token]
                /\ IF args[i].tool = "describeResource"
                   THEN /\ pc' = [pc EXCEPT ![i] = "cluster"]
                        /\ reqs' = [reqs EXCEPT ![i] =
                               Append(@, Request("cluster", bearer(r.access_token, issued'), ClusterUrl(config),
                                                 NoClaims, <<>>))]
                   ELSE /\ pc' = [pc EXCEPT ![i] = "logging"]
                        /\ reqs' = [reqs EXCEPT ![i] =
                               Append(@, Request("logging", bearer(r.access_token, issued'), LoggingUrl,
                                                 NoClaims, requestFilter(args[i], config)))]
                /\ UNCHANGED <<out, res>>
    /\ UNCHANGED <<env, config, registered, clock, info, args>>
    /\ UNCHANGED besidesTools

\* The cluster-description endpoint answers: getCluster returns the endpoint
\* or throws; describeResource then looks the kind up and requests the resource.
ClusterResponse(i, D) ==
    /\ pc[i] = "cluster"
    /\ \E r \in D.fails \cup {ClusterOk} :
        /\ resps' = [resps EXCEPT ![i] = Append(@, r)]
        /\ LET a == args[i]
               apiPath == apiPaths(toLowerCase(a.kind), a.namespace, a.name)
           IN  IF getClusterError(r) # NoMsg THEN Throw(i, a, getClusterError(r))
               ELSE IF apiPath = <<>> THEN Throw(i, a, <<"Unsupported resource kind: ", a.kind>>)
               ELSE /\ pc' = [pc EXCEPT ![i] = "k8s"]
                    /\ reqs' = [reqs EXCEPT ![i] =
                           Append(@, Request("k8s", bearer(accessToken[i], issued),
                                             <<"https://", Interpolate(r.endpoint)>> \o apiPath,
                                             NoClaims, <<>>))]
                    /\ UNCHANGED <<out, res>>
    /\ UNCHANGED <<env, config, registered, clock, info, args, accessToken, issued>>
    /\ UNCHANGED besidesTools

\* The Kubernetes API answers describeResource's request.
K8sResponse(i, D) ==
    /\ pc[i] = "k8s"
    /\ \E r \in D.fails \cup {K8sOk} :
        /\ resps' = [resps EXCEPT ![i] = Append(@, r)]
        /\ LET a == args[i]
               error == responseError(r, <<"Failed to describe ", a.kind, "/", a.name, ": ">>)
           IN  IF error # NoMsg THEN Throw(i, a, error)
               ELSE Finished(i, a, describeResourceResult(r))
    /\ UNCHANGED <<env, config, registered, clock, info, args, accessToken, issued>>
    /\ UNCHANGED besidesTools

\* Cloud Logging answers listPods' entries:list request.
ListPodsResponse(i, D) ==
    /\ pc[i] = "logging" /\ args[i].tool = "listPods"
    /\ \E r \in D.fails \cup D.logs :
        /\ resps' = [resps EXCEPT ![i] = Append(@, r)]
        /\ LET error == responseError(r, <<"Failed to list pods via logging: ">>)
           IN  IF error # NoMsg THEN Throw(i, args[i], error)
               ELSE Finished(i, args[i], listPodsResult(args[i], r))
    /\ UNCHANGED <<env, config, registered, clock, info, args, accessToken, issued>>
    /\ UNCHANGED besidesTools

\* Cloud Logging answers getPodLogs' entries:list request.
GetPodLogsResponse(i, D) ==
    /\ pc[i] = "logging" /\ args[i].tool = "getPodLogs"
    /\ \E r \in D.fails \cup D.logs :
        /\ resps' = [resps EXCEPT ![i] = Append(@, r)]
        /\ LET error == responseError(r, <<"Failed to get pod logs: ">>)
           IN  IF error # NoMsg THEN Throw(i, args[i], error)
               ELSE Finished(i, args[i], getPodLogsResult(args[i], r))
    /\ UNCHANGED <<env, config, registered, clock, info, args, accessToken, issued>>
    /\ UNCHANGED besidesTools

\* Cloud Logging answers queryCloudLogs' entries:list request.
QueryCloudLogsResponse(i, D) ==
    /\ pc[i] = "logging" /\ args[i].tool = "queryCloudLogs"
    /\ \E r \in D.fails \cup D.logs :
        /\ resps' = [resps EXCEPT ![i] = Append(@, r)]
        /\ LET error == responseError(r, <<"Failed to query logs: ">>)
           IN  IF error # NoMsg THEN Throw(i, args[i], error)
               ELSE Finished(i, args[i], queryCloudLogsResult(r))
    /\ UNCHANGED <<env, config, registered, clock, info, args, accessToken, issued>>
    /\ UNCHANGED besidesTools

\* The result of the server_info handler: the object it stringifies.
ServerInfoResult(returned, gcpEnabled, timestamp) ==
    [returned |-> returned, name |-> "hello-mcp", version |-> "1.0.0",
     gcpEnabled |-> gcpEnabled, timestamp |-> timestamp]

NoInfo == ServerInfoResult(FALSE, FALSE, 0)

\* The server_info tool is called: gcpEnabled is !!gcpConfig.
ServerInfo ==
    /\ "server_info" \in registered
    /\ info' = ServerInfoResult(TRUE, config # NoConfig, clock)
    /\ UNCHANGED <<env, config, registered, clock, pc, args, reqs, resps, accessToken, out, res, issued>>
    /\ UNCHANGED besidesTools

\* HelloMCP.init has run in an environment with one of the keys, at one of
\* the times.
ToolInit(keys, times) ==
    /\ env \in {Env(key) : key \in keys}
    /\ config = gcpConfigOf(env)
    /\ registered = registeredTools(env)
    /\ clock \in times
    /\ info = NoInfo
    /\ pc = [i \in Inv |-> "idle"]
    /\ args = [i \in Inv |-> NoArgs]
    /\ reqs = [i \in Inv |-> <<>>]
    /\ resps = [i \in Inv |-> <<>>]
    /\ accessToken = [i \in Inv |-> 0]
    /\ out = [i \in Inv |-> NoOut]
    /\ res = [i \in Inv |-> NoRes]
    /\ issued = 0

ToolStep(i, D) ==
    \/ Start(i, D)
    \/ TokenResponse(i, D)
    \/ ClusterResponse(i, D)
    \/ K8sResponse(i, D)
    \/ ListPodsResponse(i, D)
    \/ GetPodLogsResponse(i, D)
    \/ QueryCloudLogsResponse(i, D)

(***************************************************************************)
(* The Google OAuth handler                                                *)
(***************************************************************************)
\* env.AUTHORIZED_EMAIL
AUTHORIZED_EMAIL == "owner@example.com"

AuthRequest(clientId, redirectUri, state, scope, codeChallenge, codeChallengeMethod) ==
    [clientId |-> clientId, redirectUri |-> redirectUri, state |-> state, scope |-> scope,
     codeChallenge |-> codeChallenge, codeChallengeMethod |-> codeChallengeMethod]

NoAuthRequest == AuthRequest(Absent, Absent, Absent, Absent, Absent, Absent)

\* What OAUTH_PROVIDER.parseAuthRequest gives for the /authorize requests of
\* the model: two registered clients, one with PKCE, and an unregistered one.
AuthRequests ==
    {AuthRequest("claude", "https://claude.ai/cb", "st-A", "mcp", "chal-A", "S256"),
     AuthRequest("inspector", "http://localhost:6274/cb", "st-B", "mcp", Absent, Absent),
     AuthRequest("ghost", "https://evil.example/cb", "st-C", "mcp", Absent, Absent)}

\* OAUTH_PROVIDER.lookupClient finds these client ids.
RegisteredClients == {"claude", "inspector"}

\* A stored object that lacks the PKCE values.
storedAuthRequestNoPkce(authRequest) ==
    [clientId |-> authRequest.clientId,
     redirectUri |-> authRequest.redirectUri,
     state |-> authRequest.state,
     scope |-> authRequest.scope,
     codeChallenge |-> Absent,
     codeChallengeMethod |-> Absent]

\* The object handleAuthorize stores under the state key; JSON.stringify and
\* JSON.parse keep its strings, and an undefined member reads back undefined.
storedAuthRequest(authRequest) ==
    [clientId |-> authRequest.clientId,
     redirectUri |-> authRequest.redirectUri,
     state |-> authRequest.state,
     scope |-> authRequest.scope,
     codeChallenge |-> authRequest.codeChallenge,
     codeChallengeMethod |-> authRequest.codeChallengeMethod]

HttpResponse(status, body) == [status |-> status, body |-> body]
NoResponse == HttpResponse(0, <<>>)

UserInfo(id, email, name) == [id |-> id, email |-> email, name |-> name]
NoUser == UserInfo(Absent, Absent, Absent)

\* The query of a /callback request: state 0 is a missing state parameter.
CallbackQuery(code, state, error) == [code |-> code, state |-> state, error |-> error]

CallbackQueries ==
    {CallbackQuery("4/0AbCd", k, Absent) : k \in StateKeys}
    \cup {CallbackQuery("4/0AbCd", 1, "access_denied"),
          CallbackQuery(Absent, 1, Absent),
          CallbackQuery("4/0AbCd", 0, Absent)}

\* Google's answers to the code exchange and to the userinfo request.
GoogleTokenResponses ==
    {[ok |-> TRUE, access_token |-> "ya29.a0", text |-> Absent],
     [ok |-> FALSE, access_token |-> Absent, text |-> "{\"error\":\"invalid_grant\"}"]}

UserInfoResponses ==
    {[ok |-> TRUE, userInfo |-> UserInfo("1001", AUTHORIZED_EMAIL, "Owner")],
     [ok |-> TRUE, userInfo |-> UserInfo("2002", "mallory@example.com", "Mallory")],
     [ok |-> TRUE, userInfo |-> UserInfo("3003", Absent, "No Email")],
     [ok |-> FALSE, userInfo |-> NoUser]}

Callback(pcOf, query, authRequest, access_token, userInfo, response) ==
    [pc |-> pcOf, code |-> query.code, state |-> query.state, error |-> query.error,
     authRequest |-> authRequest, access_token |-> access_token, userInfo |-> userInfo,
     response |-> response]

NoCallback == Callback("idle", CallbackQuery(Absent, 0, Absent), NoAuthRequest, Absent, NoUser, NoResponse)

\* A check that accepts every address of the authorized address's domain.
emailAuthorizedByDomain(email) == email \in {AUTHORIZED_EMAIL, "mallory@example.com"}

\* handleCallback's test of the Google account: userInfo.email !== env.AUTHORIZED_EMAIL
\* rejects.
emailAuthorized(email) == email = AUTHORIZED_EMAIL

\* handleCallback returns a response.
Respond(c, query, response) ==
    cb' = [cb EXCEPT ![c] = Callback("done", query, cb[c].authRequest, cb[c].access_token,
                                     cb[c].userInfo, response)]

\* handleAuthorize: an unknown client is answered 400; otherwise the parsed
\* request is stored under a fresh state key and the browser is sent to Google.
Authorize ==
    /\ \E authRequest \in AuthRequests :
        IF authRequest.clientId \notin RegisteredClients
        THEN /\ authorized' = authorized \cup
                    {[status |-> 400, clientId |-> authRequest.clientId, stateKey |-> 0]}
             /\ UNCHANGED <<kv, nextKey>>
        ELSE /\ nextKey <= MaxAuthorize
             /\ kv' = [kv EXCEPT ![nextKey] = storedAuthRequest(authRequest)]
             /\ nextKey' = nextKey + 1
             /\ authorized' = authorized \cup
                    {[status |-> 302, clientId |-> authRequest.clientId, stateKey |-> nextKey]}
    /\ UNCHANGED <<cb, completions>>
    /\ UNCHANGED besidesOAuth

\* The entry of a state key expires (expirationTtl: 600).
KvExpire ==
    /\ \E k \in StateKeys :
        /\ kv[k] # NoAuthRequest
        /\ kv' = [kv EXCEPT ![k] = NoAuthRequest]
    /\ UNCHANGED <<nextKey, authorized, cb, completions>>
    /\ UNCHANGED besidesOAuth

\* handleCallback up to its code exchange: the checks of the query, the read
\* of the stored request, the request to Google's token endpoint.
CallbackStart(c) ==
    /\ cb[c].pc = "idle"
    /\ \E query \in CallbackQueries :
        IF query.error # Absent
        THEN Respond(c, query, HttpResponse(400, <<"OAuth error: ", query.error>>))
        ELSE IF query.code = Absent \/ query.state = 0
        THEN Respond(c, query, HttpResponse(400, <<"Missing code or state">>))
        ELSE IF kv[query.state] = NoAuthRequest
        THEN Respond(c, query, HttpResponse(400, <<"Invalid or expired state">>))
        ELSE cb' = [cb EXCEPT ![c] = Callback("token", query, kv[query.state], Absent, NoUser, NoResponse)]
    /\ UNCHANGED <<kv, nextKey, authorized, completions>>
    /\ UNCHANGED besidesOAuth

\* Google answers the code exchange; on success handleCallback asks for the
\* user's info with the token.
CallbackToken(c) ==
    /\ cb[c].pc = "token"
    /\ \E r \in GoogleTokenResponses :
        IF ~r.ok
        THEN Respond(c, cb[c], HttpResponse(400, <<"Token exchange failed: ", r.text>>))
        ELSE cb' = [cb EXCEPT ![c].pc = "userinfo", ![c].access_token = r.access_token]
    /\ UNCHANGED <<kv, nextKey, authorized, completions>>
    /\ UNCHANGED besidesOAuth

\* Google answers the userinfo request; handleCallback lets only the
\* authorized address through.
CallbackUserInfo(c) ==
    /\ cb[c].pc = "userinfo"
    /\ \E r \in UserInfoResponses :
        IF ~r.ok
        THEN Respond(c, cb[c], HttpResponse(400, <<"Failed to get user info">>))
        ELSE IF ~emailAuthorized(r.userInfo.email)
        THEN cb' = [cb EXCEPT ![c].pc = "done", ![c].userInfo = r.userInfo,
                              ![c].response = HttpResponse(403,
                                  <<"Unauthorized: This MCP server is restricted to authorized users only.">>)]
        ELSE cb' = [cb EXCEPT ![c].pc = "delete", ![c].userInfo = r.userInfo]
    /\ UNCHANGED <<kv, nextKey, authorized, completions>>
    /\ UNCHANGED besidesOAuth

\* await env.OAUTH_KV.delete(`auth:${stateKey}`)
CallbackDelete(c) ==
    /\ cb[c].pc = "delete"
    /\ kv' = [kv EXCEPT ![cb[c].state] = NoAuthRequest]
    /\ cb' = [cb EXCEPT ![c].pc = "complete"]
    /\ UNCHANGED <<nextKey, authorized, completions>>
    /\ UNCHANGED besidesOAuth

\* await env.OAUTH_PROVIDER.completeAuthorization(...), then the redirect back
\* to the MCP client.
CallbackComplete(c) ==
    /\ cb[c].pc = "complete"
    /\ completions' = completions \cup
           {[by |-> c, request |-> cb[c].authRequest, userId |-> cb[c].userInfo.id,
             email |-> cb[c].userInfo.email, name |-> cb[c].userInfo.name,
             scope |-> cb[c].authRequest.scope, accessToken |-> cb[c].access_token]}
    /\ cb' = [cb EXCEPT ![c].pc = "done",
                        ![c].response = HttpResponse(302,
                            <<cb[c].authRequest.redirectUri, "?code=", "<grant>", "&state=",
                              Interpolate(cb[c].authRequest.state)>>)]
    /\ UNCHANGED <<kv, nextKey, authorized>>
    /\ UNCHANGED besidesOAuth

OAuthInit ==
    /\ kv = [k \in StateKeys |-> NoAuthRequest]
    /\ nextKey = 1
    /\ authorized = {}
    /\ cb = [c \in Cb |-> NoCallback]
    /\ completions = {}

(***************************************************************************)
(* base64UrlEncode                                                         *)
(***************************************************************************)
\* The bytes of the inputs: 251 and 255 begin with the sextets of + and /.
Bytes == {0, 77, 251, 255}

\* btoa's alphabet, by sextet.
Base64Alphabet ==
    <<"A", "B", "C", "D", "E", "F", "G", "H", "I", "J", "K", "L", "M", "N", "O", "P",
      "Q", "R", "S", "T", "U", "V", "W", "X", "Y", "Z", "a", "b", "c", "d", "e", "f",
      "g", "h", "i", "j", "k", "l", "m", "n", "o", "p", "q", "r", "s", "t", "u", "v",
      "w", "x", "y", "z", "0", "1", "2", "3", "4", "5", "6", "7", "8", "9", "+", "/">>

sextet(n) == Base64Alphabet[n + 1]

\* btoa on a binary string (one character per byte): three bytes give four
\* characters, a last group of one or two bytes is padded with =.
RECURSIVE btoa(_)
btoa(bytes) ==
    IF bytes = <<>> THEN <<>>
    ELSE IF Len(bytes) = 1
    THEN <<sextet(bytes[1] \div 4), sextet((bytes[1] % 4) * 16), "=", "=">>
    ELSE IF Len(bytes) = 2
    THEN <<sextet(bytes[1] \div 4), sextet((bytes[1] % 4) * 16 + bytes[2] \div 16),
           sextet((bytes[2] % 16) * 4), "=">>
    ELSE <<sextet(bytes[1] \div 4), sextet((bytes[1] % 4) * 16 + bytes[2] \div 16),
           sextet((bytes[2] % 16) * 4 + bytes[3] \div 64), sextet(bytes[3] % 64)>>
         \o btoa(SubSeq(bytes, 4, Len(bytes)))

\* String.prototype.replace with a global pattern of one character.
replace(text, from, to) ==
    IF to = "" THEN SelectSeq(text, LAMBDA c : c # from)
    ELSE [k \in 1..Len(text) |-> IF text[k] = from THEN to ELSE text[k]]

\* base64UrlEncode that forgets the / of the alphabet.
base64UrlEncodeSlash(bytes) == replace(replace(btoa(bytes), "+", "-"), "=", "")

\* base64UrlEncode: of a string and of an ArrayBuffer alike it is btoa of the
\* binary string, with + and / replaced and = removed.
base64UrlEncode(bytes) == replace(replace(replace(btoa(bytes), "+", "-"), "/", "_"), "=", "")

NotEncoded == [done |-> FALSE, text |-> <<>>]

\* base64UrlEncode is called on the bytes.
Encode ==
    /\ ~encoded.done
    /\ encoded' = [done |-> TRUE, text |-> base64UrlEncode(input)]
    /\ UNCHANGED <<input, toolVars, oauthVars, userVars>>

CodecInit(inputs) ==
    /\ input \in inputs
    /\ encoded = NotEncoded

(***************************************************************************)
(* The user service (apps/user-service): the /api/users/me endpoints       *)
(***************************************************************************)
Emails == {"alice@example.com", "bob@example.com"}

\* The values of the x-auth-request-user header: missing, empty, an email.
AuthHeaders == {Absent, ""} \cup Emails

\* A row of the users table (migration 1): email is the primary key,
\* avatar_url starts NULL, metadata is held as its JSON text, the timestamps
\* are the numbers of the requests that set them.  NoRow: there is no such row.
UserRow(email, display_name, avatar_url, metadata, created_at, updated_at) ==
    [email |-> email, display_name |-> display_name, avatar_url |-> avatar_url,
     metadata |-> metadata, created_at |-> created_at, updated_at |-> updated_at]

NoRow == UserRow(Absent, Absent, Absent, Absent, 0, 0)

\* A member of a request body: its typeof-kind ("undefined" when the body
\* lacks it), its JSON text and the length of that text.
Value(type, text, length) == [type |-> type, text |-> text, length |-> length]
Undefined == Value("undefined", Absent, 0)

Body(display_name, avatar_url, metadata) ==
    [display_name |-> display_name, avatar_url |-> avatar_url, metadata |-> metadata]

\* The bodies of the PUT requests of the model.
PutBodies ==
    {Body(Undefined, Undefined, Undefined),
     Body(Value("string", "Al", 4), Undefined, Undefined),
     Body(Value("number", "42", 2), Undefined, Undefined),
     Body(Undefined, Value("string", "https://cdn.example/a.png", 27), Undefined),
     Body(Undefined, Value("boolean", "true", 4), Undefined),
     Body(Undefined, Undefined, Value("object", "{\"theme\":\"dark\"}", 16)),
     Body(Undefined, Undefined, Value("object", "{\"blob\":\"xxx...\"}", 10001)),
     Body(Undefined, Undefined, Value("string", "\"dark\"", 6)),
     Body(Undefined, Undefined, Value("array", "[1]", 3)),
     Body(Undefined, Undefined, Value("number", "7", 1)),
     Body(Undefined, Undefined, Value("boolean", "false", 5)),
     Body(Undefined, Undefined, Value("null", "null", 4)),
     Body(Value("string", "Al", 4), Undefined, Value("object", "{\"theme\":\"dark\"}", 16))}

\* The bodies of the upload-url requests: contentType and fileExtension.
UploadBodies ==
    {[contentType |-> "image/png", fileExtension |-> "png"],
     [contentType |-> "image/png", fileExtension |-> "exe"],
     [contentType |-> "text/html", fileExtension |-> "png"],
     [contentType |-> Absent, fileExtension |-> Absent]}

\* A request answered, with its response: what the handler was asked, the
\* status and the error of the JSON it answered, the row it returned and the
\* number of pool.query calls it made.  asked is the req.body a PUT handler
\* has destructured (an empty body for every other request).
Exchange(method, path, user, status, error, row, queries) ==
    [method |-> method, path |-> path, user |-> user, status |-> status, error |-> error,
     row |-> row, queries |-> queries, asked |-> Body(Undefined, Undefined, Undefined)]

\* The answer of PUT /api/users/me to body.
PutExchange(email, body, status, error, row, queries) ==
    [Exchange("PUT", "/api/users/me", email, status, error, row, queries) EXCEPT !.asked = body]

NoExchange == Exchange("none", Absent, Absent, 0, Absent, NoRow, 0)

\* A check of the header that only looks whether it is there.
authenticatedIfPresent(email) == email # Absent

\* `if (!email)` fails: the header is there and not empty.
authenticated(email) == ~Falsy(email)

\* The handler answers: the response is recorded, the table becomes table.
Answer(exchange, table) ==
    /\ served < MaxRequests
    /\ served' = served + 1
    /\ last' = exchange
    /\ users' = table
    /\ UNCHANGED <<bucket, listing>>
    /\ UNCHANGED <<toolVars, oauthVars, codecVars>>

\* The 401 of the three handlers on the users table.
Unauthenticated(method, path, email) ==
    Answer(Exchange(method, path, email, 401, "No authenticated user", NoRow, 0), users)

\* pool.query rejects: the handler's catch answers 500.
InternalError(method, path, email) ==
    Answer(Exchange(method, path, email, 500, "Internal server error", NoRow, 1), users)

\* GET /health: SELECT 1.
Health ==
    \E dbUp \in BOOLEAN :
        IF dbUp THEN Answer(Exchange("GET", "/health", Absent, 200, Absent, NoRow, 1), users)
        ELSE Answer(Exchange("GET", "/health", Absent, 503, "Database unavailable", NoRow, 1), users)

\* GET /api/users/me: INSERT ... ON CONFLICT (email) DO UPDATE SET email =
\* EXCLUDED.email RETURNING *; the row update fires the updated_at trigger.
GetMe ==
    \E email \in AuthHeaders, dbUp \in BOOLEAN :
        IF ~authenticated(email) THEN Unauthenticated("GET", "/api/users/me", email)
        ELSE IF ~dbUp THEN InternalError("GET", "/api/users/me", email)
        ELSE LET row == IF users[email] = NoRow
                        THEN UserRow(email, email, Absent, "{}", served + 1, served + 1)
                        ELSE [users[email] EXCEPT !.updated_at = served + 1]
             IN  Answer(Exchange("GET", "/api/users/me", email, 200, Absent, row, 1),
                        [users EXCEPT ![email] = row])

\* PUT's input validation: the error it answers 400 with, Absent when the
\* body passes.
putError(body) ==
    IF body.display_name.type \notin {"undefined", "string"} THEN "display_name must be a string"
    ELSE IF body.avatar_url.type \notin {"undefined", "string"} THEN "avatar_url must be a string"
    ELSE IF body.metadata.type \notin {"undefined", "object", "null"} THEN "metadata must be an object"
    ELSE IF body.metadata.type # "undefined" /\ body.metadata.length > 10000
         THEN "metadata too large (max 10KB)"
    ELSE IF body.display_name.type = "undefined" /\ body.avatar_url.type = "undefined"
            /\ body.metadata.type = "undefined"
         THEN "No fields to update"
    ELSE Absent

\* An UPDATE that sets all three columns, the ones the body lacks to NULL.
updatedEveryColumn(row, body, now) ==
    UserRow(row.email, body.display_name.text, body.avatar_url.text, body.metadata.text,
            row.created_at, now)

\* UPDATE users SET <the provided fields> WHERE email = $1: the row after it.
updated(row, body, now) ==
    UserRow(row.email,
            IF body.display_name.type # "undefined" THEN body.display_name.text ELSE row.display_name,
            IF body.avatar_url.type # "undefined" THEN body.avatar_url.text ELSE row.avatar_url,
            IF body.metadata.type # "undefined" THEN body.metadata.text ELSE row.metadata,
            row.created_at, now)

\* A PUT handler whose statement is an upsert, like the one of GET.
PutMeUpsert ==
    \E email \in Emails, body \in PutBodies :
        /\ putError(body) = Absent
        /\ LET before == IF users[email] = NoRow
                         THEN UserRow(email, email, Absent, "{}", served + 1, served + 1)
                         ELSE users[email]
               row == updated(before, body, served + 1)
           IN  Answer(PutExchange(email, body, 200, Absent, row, 1),
                      [users EXCEPT ![email] = row])

\* PUT /api/users/me
PutMe ==
    \E email \in AuthHeaders, body \in PutBodies, dbUp \in BOOLEAN :
        IF ~authenticated(email) THEN Unauthenticated("PUT", "/api/users/me", email)
        ELSE IF putError(body) # Absent
        THEN Answer(PutExchange(email, body, 400, putError(body), NoRow, 0), users)
        ELSE IF ~dbUp
        THEN Answer(PutExchange(email, body, 500, "Internal server error", NoRow, 1), users)
        ELSE IF users[email] = NoRow
        THEN Answer(PutExchange(email, body, 404, "User not found", NoRow, 1), users)
        ELSE LET row == updated(users[email], body, served + 1)
             IN  Answer(PutExchange(email, body, 200, Absent, row, 1),
                        [users EXCEPT ![email] = row])

\* A DELETE handler whose statement lacks the WHERE clause.
DeleteMeEveryRow ==
    \E email \in AuthHeaders :
        IF ~authenticated(email) THEN Unauthenticated("DELETE", "/api/users/me", email)
        ELSE Answer(Exchange("DELETE", "/api/users/me", email, 200, Absent,
                             UserRow(email, Absent, Absent, Absent, 0, 0), 1),
                    [e \in DOMAIN users |-> NoRow])

\* DELETE /api/users/me: DELETE FROM users WHERE email = $1 RETURNING email
DeleteMe ==
    \E email \in AuthHeaders, dbUp \in BOOLEAN :
        IF ~authenticated(email) THEN Unauthenticated("DELETE", "/api/users/me", email)
        ELSE IF ~dbUp THEN InternalError("DELETE", "/api/users/me", email)
        ELSE IF users[email] = NoRow
        THEN Answer(Exchange("DELETE", "/api/users/me", email, 404, "User not found", NoRow, 1), users)
        ELSE Answer(Exchange("DELETE", "/api/users/me", email, 200, Absent,
                             UserRow(email, Absent, Absent, Absent, 0, 0), 1),
                    [users EXCEPT ![email] = NoRow])

\* POST /api/users/me/avatar/upload-url: no query; the URL is signed by the
\* storage client, which may fail.
PostAvatarUploadUrl ==
    \E email \in AuthHeaders, body \in UploadBodies, signed \in BOOLEAN :
        LET path == "/api/users/me/avatar/upload-url"
        IN  IF ~authenticated(email)
            THEN Answer(Exchange("POST", path, email, 401, "No authenticated user", NoRow, 0), users)
            ELSE IF body.contentType \notin {"image/jpeg", "image/png", "image/gif", "image/webp"}
            THEN Answer(Exchange("POST", path, email, 400,
                     "Invalid content type. Must be image/jpeg, image/png, image/gif, or image/webp",
                     NoRow, 0), users)
            ELSE IF body.fileExtension \notin {"jpg", "jpeg", "png", "gif", "webp"}
            THEN Answer(Exchange("POST", path, email, 400,
                     "Invalid file extension. Must be jpg, jpeg, png, gif, or webp", NoRow, 0), users)
            ELSE IF bucket = "default-bucket"
            THEN Answer(Exchange("POST", path, email, 500, "Storage not configured", NoRow, 0), users)
            ELSE IF ~signed
            THEN Answer(Exchange("POST", path, email, 500, "Failed to generate upload URL", NoRow, 0), users)
            ELSE Answer(Exchange("POST", path, email, 200, Absent, NoRow, 0), users)

(***************************************************************************)
(* The earlier user service (index.js 328-540): no input validation in PUT, *)
(* no DELETE and no upload URL, but GET /api/users/:email and GET /api/users *)
(***************************************************************************)
\* A query parameter: the characters of req.query.<name>, if it is there.
Param(text) == [given |-> TRUE, text |-> text]
Missing == [given |-> FALSE, text |-> <<>>]

\* The limit and offset parameters of the GET /api/users requests.
LimitParams ==
    {Missing, Param(<<>>), Param(<<"a", "b", "c">>), Param(<<"0">>), Param(<<"1">>),
     Param(<<"1", "0", "0">>), Param(<<"1", "0", "1">>), Param(<<"5", "0", "0">>),
     Param(<<"-", "5">>), Param(<<"7", ".", "9">>), Param(<<"0", "x", "f", "f">>)}
OffsetParams == {Missing, Param(<<"1">>), Param(<<"x">>), Param(<<"-", "1">>)}

\* A JavaScript number: NaN or an integer.
Number(value) == [nan |-> FALSE, value |-> value]
NaN == [nan |-> TRUE, value |-> 0]

HexDigits == <<"0", "1", "2", "3", "4", "5", "6", "7", "8", "9", "a", "b", "c", "d", "e", "f">>

\* The value of character c as a digit of the radix, -1 when it is none.
digitOf(c, radix) ==
    IF \E i \in 1..radix : HexDigits[i] = c
    THEN (CHOOSE i \in 1..radix : HexDigits[i] = c) - 1
    ELSE -1

\* The characters of text after its leading white space.
RECURSIVE trimStart(_)
trimStart(text) ==
    IF text # <<>> /\ text[1] \in {" ", "\t", "\n"} THEN trimStart(Tail(text)) ELSE text

\* The number the longest prefix of digits of text denotes (acc: the value of
\* the digits read so far; any: whether a digit was read).
RECURSIVE digitsValue(_, _, _, _)
digitsValue(text, radix, acc, any) ==
    IF text # <<>> /\ digitOf(text[1], radix) >= 0
    THEN digitsValue(Tail(text), radix, acc * radix + digitOf(text[1], radix), TRUE)
    ELSE IF any THEN Number(acc) ELSE NaN

\* parseInt(string) without a radix: white space, a sign, 0x for base 16,
\* then digits up to the first character that is none; NaN without a digit
\* (parseInt(undefined) reads the text "undefined").
parseInt(string) ==
    IF ~string.given THEN NaN
    ELSE LET trimmed == trimStart(string.text)
             signed == trimmed # <<>> /\ trimmed[1] \in {"+", "-"}
             unsigned == IF signed THEN Tail(trimmed) ELSE trimmed
             hex == Len(unsigned) >= 2 /\ unsigned[1] = "0" /\ unsigned[2] \in {"x", "X"}
             magnitude == IF hex THEN digitsValue(Tail(Tail(unsigned)), 16, 0, FALSE)
                          ELSE digitsValue(unsigned, 10, 0, FALSE)
         IN  IF magnitude.nan THEN NaN
             ELSE IF signed /\ trimmed[1] = "-" THEN Number(0 - magnitude.value)
             ELSE magnitude

\* number || fallback: NaN and 0 are falsy.
numberOr(number, fallback) == IF number.nan \/ number.value = 0 THEN fallback ELSE number.value

Min(a, b) == IF a <= b THEN a ELSE b

\* A page size without the upper limit.
pageLimitUncapped(limitParam) == numberOr(parseInt(limitParam), 50)

\* const limit = Math.min(parseInt(req.query.limit) || 50, 100)
pageLimit(limitParam) == Min(numberOr(parseInt(limitParam), 50), 100)

\* const offset = parseInt(req.query.offset) || 0
pageOffset(offsetParam) == numberOr(parseInt(offsetParam), 0)

\* The rows of the table.
rowsOf(table) == {table[e] : e \in DOMAIN table} \ {NoRow}

\* ORDER BY created_at DESC (no two rows of the model are created by the
\* same request)
RECURSIVE orderByCreatedAtDesc(_)
orderByCreatedAtDesc(rows) ==
    IF rows = {} THEN <<>>
    ELSE LET newest == CHOOSE r \in rows : \A o \in rows : o.created_at <= r.created_at
         IN  <<newest>> \o orderByCreatedAtDesc(rows \ {newest})

\* SELECT * FROM users ORDER BY created_at DESC LIMIT $1 OFFSET $2
selectPage(table, limit, offset) ==
    LET ordered == orderByCreatedAtDesc(rowsOf(table))
    IN  SubSeq(ordered, offset + 1, Min(Len(ordered), offset + limit))

\* The count column of SELECT COUNT(*) FROM users: a bigint, which the driver
\* hands over as its decimal text.
RECURSIVE decimal(_)
decimal(n) == IF n < 10 THEN <<HexDigits[n + 1]>> ELSE decimal(n \div 10) \o <<HexDigits[(n % 10) + 1]>>

countText(table) == Param(decimal(Cardinality(rowsOf(table))))

\* The pagination object of the response.
Pagination(limit, offset, total) == [limit |-> limit, offset |-> offset, total |-> total]

\* A GET /api/users request: its parameters, where the handler is (idle,
\* count: between its two queries, done), the limit and the offset it used
\* and its response.
Listing(pc_, limitParam, offsetParam, limit, offset, status, error, page, pagination) ==
    [pc |-> pc_, limitParam |-> limitParam, offsetParam |-> offsetParam, limit |-> limit,
     offset |-> offset, status |-> status, error |-> error, users |-> page,
     pagination |-> pagination]

NoListing == Listing("idle", Missing, Missing, 0, 0, 0, Absent, <<>>, Pagination(0, 0, 0))

\* GET /api/users up to its first query; PostgreSQL rejects a negative LIMIT
\* or OFFSET, and the catch answers 500.
ListUsers ==
    \E limitParam \in LimitParams, offsetParam \in OffsetParams, dbUp \in BOOLEAN :
        LET limit == pageLimit(limitParam)
            offset == pageOffset(offsetParam)
        IN  /\ listing.pc # "count"
            /\ served < MaxRequests
            /\ served' = served + 1
            /\ listing' = IF ~dbUp \/ limit < 0 \/ offset < 0
                          THEN Listing("done", limitParam, offsetParam, limit, offset, 500,
                                       "Internal server error", <<>>, Pagination(0, 0, 0))
                          ELSE Listing("count", limitParam, offsetParam, limit, offset, 0, Absent,
                                       selectPage(users, limit, offset), Pagination(0, 0, 0))
            /\ UNCHANGED <<users, last, bucket>>
            /\ UNCHANGED <<toolVars, oauthVars, codecVars>>

\* GET /api/users from its second query on: the count and the response.
ListUsersCount ==
    \E dbUp \in BOOLEAN :
        /\ listing.pc = "count"
        /\ listing' = IF ~dbUp
                      THEN [listing EXCEPT !.pc = "done", !.status = 500,
                                           !.error = "Internal server error", !.users = <<>>]
                      ELSE [listing EXCEPT !.pc = "done", !.status = 200,
                                           !.pagination = Pagination(listing.limit, listing.offset,
                                                              parseInt(countText(users)).value)]
        /\ UNCHANGED <<users, served, last, bucket>>
        /\ UNCHANGED <<toolVars, oauthVars, codecVars>>

\* GET /api/users/:email: SELECT * FROM users WHERE email = $1, whoever asks.
GetUserByEmail ==
    \E email \in Emails \cup {"carol@example.com"}, dbUp \in BOOLEAN :
        LET path == "/api/users/:email"
        IN  IF ~dbUp THEN Answer(Exchange("GET", path, Absent, 500, "Internal server error", NoRow, 1), users)
            ELSE IF email \notin DOMAIN users \/ users[email] = NoRow
            THEN Answer(Exchange("GET", path, Absent, 404, "User not found", NoRow, 1), users)
            ELSE Answer(Exchange("GET", path, Absent, 200, Absent, users[email], 1), users)

\* The bodies of the PUT requests to the earlier service.
EarlierBodies ==
    {Body(Undefined, Undefined, Undefined),
     Body(Value("number", "42", 2), Undefined, Undefined),
     Body(Undefined, Undefined, Value("string", "\"dark\"", 6))}

\* PUT /api/users/me of the earlier service: every provided field is written.
PutMeEarlier ==
    \E email \in AuthHeaders, body \in EarlierBodies, dbUp \in BOOLEAN :
        IF ~authenticated(email) THEN Unauthenticated("PUT", "/api/users/me", email)
        ELSE IF body = Body(Undefined, Undefined, Undefined)
        THEN Answer(PutExchange(email, body, 400, "No fields to update", NoRow, 0), users)
        ELSE IF ~dbUp
        THEN Answer(PutExchange(email, body, 500, "Internal server error", NoRow, 1), users)
        ELSE IF users[email] = NoRow
        THEN Answer(PutExchange(email, body, 404, "User not found", NoRow, 1), users)
        ELSE LET row == updated(users[email], body, served + 1)
             IN  Answer(PutExchange(email, body, 200, Absent, row, 1),
                        [users EXCEPT ![email] = row])

\* The service has started: the migration has created an empty users table.
UserInit(buckets) ==
    /\ users = [e \in Emails \cup {""} |-> NoRow]
    /\ served = 0
    /\ last = NoExchange
    /\ bucket \in buckets
    /\ listing = NoListing

\* One invocation at a time, with every key, call and upstream answer.
Init == ToolInit(ServiceAccountKeys \cup {KeyUnset, KeyEmpty}, Times) /\ OAuthInit /\ CodecInit({<<>>}) /\ UserInit({"default-bucket"})
Next == ToolStep(1, AllData) \/ ServerInfo
Spec == Init /\ [][Next]_vars

\* Concurrent invocations of the handlers of one server.
InitConc == ToolInit({KeyValid, KeyNotJson}, {1500}) /\ OAuthInit /\ CodecInit({<<>>}) /\ UserInit({"default-bucket"})
NextConc == \E i \in Inv : ToolStep(i, ConcData)
SpecConc == InitConc /\ [][NextConc]_vars

\* The OAuth handler serving /authorize and concurrent /callback requests.
InitOAuth == ToolInit({KeyValid}, {1500}) /\ OAuthInit /\ CodecInit({<<>>}) /\ UserInit({"default-bucket"})
NextOAuth ==
    \/ Authorize
    \/ KvExpire
    \/ \E c \in Cb :
        \/ CallbackStart(c)
        \/ CallbackToken(c)
        \/ CallbackUserInfo(c)
        \/ CallbackDelete(c)
        \/ CallbackComplete(c)
SpecOAuth == InitOAuth /\ [][NextOAuth]_vars

\* base64UrlEncode on every byte string of the bounded lengths.
InitCodec ==
    /\ ToolInit({KeyValid}, {1500}) /\ OAuthInit /\ CodecInit(SeqUpTo(Bytes, MaxBytes))
    /\ UserInit({"default-bucket"})
NextCodec == Encode
SpecCodec == InitCodec /\ [][NextCodec]_vars

\* The user service answering requests one after the other.
InitUsers ==
    /\ ToolInit({KeyValid}, {1500}) /\ OAuthInit /\ CodecInit({<<>>})
    /\ UserInit({"default-bucket", "tech-island-avatars"})
NextUsers == Health \/ GetMe \/ PutMe \/ DeleteMe \/ PostAvatarUploadUrl
SpecUsers == InitUsers /\ [][NextUsers]_vars

\* The earlier user service, whose GET /api/users awaits two queries while
\* other requests are answered.
InitEarlier ==
    /\ ToolInit({KeyValid}, {1500}) /\ OAuthInit /\ CodecInit({<<>>})
    /\ UserInit({"default-bucket"})
NextEarlier == Health \/ GetMe \/ PutMeEarlier \/ GetUserByEmail \/ ListUsers \/ ListUsersCount
SpecEarlier == InitEarlier /\ [][NextEarlier]_vars

(***************************************************************************)
(* Claims about the tool operations                                        *)
(***************************************************************************)
C1_SupportedKinds == {"pod", "pods", "deployment", "deployments", "service", "services", "ingress", "ingresses"}

\* C1 (as claimed): describeResource called with a kind that is none of the
\* supported kinds (compared case-insensitively) fails without having issued
\* any HTTP request.
C1_UnsupportedKindNoRequest ==
    \A i \in Inv :
        (pc[i] # "idle" /\ args[i].tool = "describeResource"
            /\ toLowerCase(args[i].kind) \notin C1_SupportedKinds)
        => /\ reqs[i] = <<>>
           /\ pc[i] = "done" => out[i].status = "error"

\* C2 (as claimed): for every successful upstream response getPodLogs returns
\* exactly the text body it received.
C2_ReturnsUpstreamBody ==
    \A i \in Inv :
        (pc[i] = "done" /\ args[i].tool = "getPodLogs" /\ out[i].status = "ok")
        => out[i].text = bodyText(resps[i][Len(resps[i])])

\* The line C2 expects for entry e.
C2_Line(e) ==
    <<"[",
      IF e.timestamp \in {Absent, ""} THEN "" ELSE e.timestamp,
      "] [",
      IF e.severity \in {Absent, ""} THEN "INFO" ELSE e.severity,
      "] ",
      IF e.textPayload \notin {Absent, ""} THEN e.textPayload
      ELSE IF e.jsonPayload \notin {Absent, ""} THEN e.jsonPayload
      ELSE IF e.protoPayload # Absent THEN e.protoPayload
      ELSE "undefined">>

\* C2 (amended): for every 2xx JSON response of entries:list getPodLogs
\* returns text built from the entries: the "No log entries found" sentence
\* naming the pod (and the container, when one was given) when entries is
\* missing or empty, and otherwise one line "[timestamp] [severity] message"
\* per entry, in reverse upstream order, separated by newlines.
C2_FormatsEntriesOldestFirst ==
    \A i \in Inv :
        (pc[i] = "done" /\ args[i].tool = "getPodLogs" /\ Len(resps[i]) = 2
            /\ resps[i][2].kind = "ok" /\ resps[i][2].json)
        => LET entries == resps[i][2].entries
               n == Len(entries)
               text == out[i].text
           IN  /\ out[i].status = "ok"
               /\ n = 0 =>
                    text = IF args[i].container \in {Absent, ""}
                           THEN <<"No log entries found for pod ", args[i].name>>
                           ELSE <<"No log entries found for pod ", args[i].name,
                                  " container ", args[i].container>>
               /\ n > 0 =>
                    /\ Len(text) = 7 * n - 1
                    /\ \A k \in 1..n :
                        /\ SubSeq(text, 7 * k - 6, 7 * k - 1) = C2_Line(entries[n + 1 - k])
                        /\ k < n => text[7 * k] = "\n"

\* C2's case: getPodLogs has formatted two different entries.
C2_Witness ==
    \E i \in Inv :
        /\ pc[i] = "done" /\ args[i].tool = "getPodLogs" /\ out[i].status = "ok"
        /\ resps[i][2].entries = <<E1, E2>>

\* C3: in every operation, when the token endpoint answers non-2xx the
\* operation fails with an error whose message contains the response body, and
\* the invocation has issued no request but the token request.
C3_TokenFailureCarriesBody ==
    \A i \in Inv :
        (Len(resps[i]) >= 1 /\ resps[i][1].kind = "http")
        => /\ pc[i] = "done"
           /\ out[i].status = "error"
           /\ Contains(out[i].msg, <<resps[i][1].text>>)
           /\ Len(reqs[i]) = 1 /\ reqs[i][1].ep = "token"

\* C3's case: a token exchange answered 400 {"error":"invalid_grant"}.
C3_Witness ==
    \E i \in Inv :
        /\ pc[i] = "done" /\ args[i].tool \in Tools
        /\ Len(resps[i]) = 1 /\ resps[i][1] = HttpError("{\"error\":\"invalid_grant\"}")

\* C4 (as claimed): if config.serviceAccountKey is not valid JSON, or parses
\* to an object lacking client_email or private_key, every operation fails
\* before it issues any HTTP request.
C4_InvalidKeyNoRequest ==
    \A i \in Inv :
        (pc[i] # "idle"
            /\ (\/ ~config.serviceAccountKey.wellFormed
                \/ config.serviceAccountKey.client_email = Absent
                \/ config.serviceAccountKey.private_key = Absent))
        => reqs[i] = <<>> /\ pc[i] = "done" /\ out[i].status = "error"

\* C5: no operation retries: an invocation requests each endpoint at most
\* once, and its first failing request (non-2xx, or no response at all) is its
\* last request and ends it with an error returned to the caller.
C5_NoRetry ==
    \A i \in Inv :
        /\ \A k, l \in 1..Len(reqs[i]) : k # l => reqs[i][k].ep # reqs[i][l].ep
        /\ \A k \in 1..Len(resps[i]) :
            resps[i][k].kind \in {"http", "neterr"}
            => /\ k = Len(resps[i]) /\ k = Len(reqs[i])
               /\ pc[i] = "done" /\ out[i].status = "error"
               /\ ViaHandler(args[i]) => res[i].returned /\ res[i].isError

\* C5's case: the second request of an invocation failed.
C5_Witness ==
    \E i \in Inv :
        /\ pc[i] = "done" /\ Len(resps[i]) = 2
        /\ resps[i][2].kind \in {"http", "neterr"}

\* The token requests issued so far, over all invocations.
C6_TokenRequests == {<<i, k>> \in Inv \X (1..4) : k <= Len(reqs[i]) /\ reqs[i][k].ep = "token"}

\* C6: every invocation that reaches the token step has issued one token
\* request of its own, and every bearer token in a request of an invocation is
\* the one its own exchange returned, never one returned to another invocation.
C6_OwnTokenOnly ==
    /\ Cardinality(C6_TokenRequests)
         = Cardinality({i \in Inv : pc[i] # "idle" /\ PreludeError(config) = NoMsg})
    /\ \A i \in Inv : \A k \in 1..Len(reqs[i]) :
        reqs[i][k].bearer # 0
        => /\ Len(resps[i]) >= 1 /\ resps[i][1].kind = "ok"
           /\ reqs[i][k].bearer = resps[i][1].access_token
           /\ \A j \in Inv \ {i} :
                Len(resps[j]) >= 1 => reqs[i][k].bearer # resps[j][1].access_token

\* C6's case: two invocations have each exchanged a token and one of them has
\* used its token a second time, after the other's exchange.
C6_Witness ==
    \E i, j \in Inv :
        /\ i # j /\ accessToken[i] # 0 /\ accessToken[j] > accessToken[i]
        /\ Len(reqs[i]) = 3 /\ reqs[i][3].bearer # 0 /\ Len(reqs[j]) >= 2

\* The outcome of the operation called with a under cfg once it has received
\* the responses rs, as the straight-line reading of its code gives it; NoOut
\* while it waits for a response.
C7_Alone(cfg, a, rs) ==
    LET n == Len(rs)
        logError == responseError(rs[2],
                        CASE a.tool = "listPods" -> <<"Failed to list pods via logging: ">>
                          [] a.tool = "getPodLogs" -> <<"Failed to get pod logs: ">>
                          [] OTHER -> <<"Failed to query logs: ">>)
    IN  IF PreludeError(cfg) # NoMsg THEN Failure(PreludeError(cfg))
        ELSE IF n = 0 THEN NoOut
        ELSE IF getAccessTokenError(rs[1]) # NoMsg THEN Failure(getAccessTokenError(rs[1]))
        ELSE IF n = 1 THEN NoOut
        ELSE IF a.tool = "describeResource"
             THEN IF getClusterError(rs[2]) # NoMsg THEN Failure(getClusterError(rs[2]))
                  ELSE IF toLowerCase(a.kind) \notin C1_SupportedKinds
                       THEN Failure(<<"Unsupported resource kind: ", a.kind>>)
                  ELSE IF n = 2 THEN NoOut
                  ELSE IF rs[3].kind = "ok" /\ rs[3].json THEN describeResourceResult(rs[3])
                  ELSE Failure(responseError(rs[3], <<"Failed to describe ", a.kind, "/", a.name, ": ">>))
        ELSE IF logError # NoMsg THEN Failure(logError)
        ELSE IF a.tool = "listPods" THEN listPodsResult(a, rs[2])
        ELSE IF a.tool = "getPodLogs" THEN getPodLogsResult(a, rs[2])
        ELSE queryCloudLogsResult(rs[2])

\* C7: under every interleaving of concurrent invocations, the outcome of an
\* invocation is the one its own arguments and the responses to its own
\* requests give it, whatever the other invocations did or suffered.
C7_OutcomeIsOwn ==
    \A i \in Inv :
        IF pc[i] = "idle" THEN out[i] = NoOut /\ res[i] = NoRes
        ELSE /\ out[i] = C7_Alone(config, args[i], resps[i])
             /\ pc[i] = "done" <=> out[i].status # "none"
             /\ res[i] = IF pc[i] = "done" /\ ViaHandler(args[i])
                         THEN toolHandler(args[i], out[i]) ELSE NoRes

\* C7's case: one invocation failed at a request while another, in flight at
\* that moment or later, succeeded.
C7_Witness ==
    \E i, j \in Inv :
        /\ i # j
        /\ out[i].status = "error" /\ Len(resps[i]) >= 1
        /\ out[j].status = "ok" /\ accessToken[j] < issued

C8_Succeeded(r) == r.kind = "ok" /\ r.json

\* C8: within an invocation no request other than the token request (so no
\* bearer-authenticated request) is sent before the token exchange has
\* returned successfully, no Kubernetes API request before the cluster lookup
\* has returned successfully, each request only after the previous one has
\* been answered, and a value is returned only after the last one succeeded.
C8_StepOrder ==
    \A i \in Inv :
        /\ Len(resps[i]) <= Len(reqs[i]) /\ Len(reqs[i]) <= Len(resps[i]) + 1
        /\ \A k \in 1..Len(reqs[i]) :
            /\ (reqs[i][k].bearer # 0 \/ reqs[i][k].ep # "token")
               => /\ k >= 2 /\ reqs[i][1].ep = "token" /\ reqs[i][1].bearer = 0
                  /\ \A m \in 1..(k - 1) : C8_Succeeded(resps[i][m])
            /\ reqs[i][k].ep = "k8s"
               => k = 3 /\ reqs[i][2].ep = "cluster"
            /\ reqs[i][k].ep \in {"cluster", "logging"} => k = 2
        /\ out[i].status = "ok"
           => /\ Len(reqs[i]) = Len(resps[i]) /\ Len(reqs[i]) >= 2
              /\ C8_Succeeded(resps[i][Len(resps[i])])

\* C8's case: describeResource has sent its Kubernetes API request.
C8_Witness ==
    \E i \in Inv :
        /\ Len(reqs[i]) = 3 /\ reqs[i][3].ep = "k8s" /\ reqs[i][3].bearer # 0
        /\ Len(resps[i]) = 2

\* C9: a GCP tool handler always returns a tool result; the result has
\* isError set exactly when the operation failed, and then its text contains
\* the error's message.
C9_HandlerReturnsResult ==
    \A i \in Inv :
        (pc[i] = "done" /\ ViaHandler(args[i]))
        => /\ res[i].returned
           /\ res[i].isError <=> out[i].status = "error"
           /\ out[i].status = "error"
              => out[i].msg # <<>> /\ Contains(res[i].text, out[i].msg)

\* C9's case: handlers have returned an error for a failure at the last
\* request of the operation.
C9_Witness ==
    \E i \in Inv :
        /\ pc[i] = "done" /\ ViaHandler(args[i]) /\ res[i].isError
        /\ Len(resps[i]) = 2 /\ args[i].tool = "getPodLogs"

(***************************************************************************)
(* Claims about the OAuth handler                                          *)
(***************************************************************************)
\* C10: completeAuthorization is called, and the client redirected with a
\* code, only for a callback whose userinfo email equals AUTHORIZED_EMAIL; a
\* callback that got any other email answers 403 and never calls
\* completeAuthorization.
C10_OnlyAuthorizedEmail ==
    /\ \A x \in completions : x.email = AUTHORIZED_EMAIL /\ cb[x.by].userInfo.email = AUTHORIZED_EMAIL
    /\ \A c \in Cb :
        /\ cb[c].pc \in {"delete", "complete"} => cb[c].userInfo.email = AUTHORIZED_EMAIL
        /\ cb[c].response.status = 302 => cb[c].userInfo.email = AUTHORIZED_EMAIL
        /\ (cb[c].userInfo # NoUser /\ cb[c].userInfo.email # AUTHORIZED_EMAIL)
           => /\ cb[c].pc = "done" /\ cb[c].response.status = 403
              /\ \A x \in completions : x.by # c

\* C10's case: one callback was let through and completed, another was
\* answered 403.
C10_Witness ==
    \E c, d \in Cb :
        /\ cb[c].response.status = 302 /\ (\E x \in completions : x.by = c)
        /\ cb[d].response.status = 403 /\ cb[d].userInfo.email = "mallory@example.com"

(***************************************************************************)
(* Claims about what the operations send and return                        *)
(***************************************************************************)
\* C11 (as claimed): when listPods is called with a labelSelector, the
\* selector is carried in the request listPods sends upstream for the pods.
C11_SelectorInRequest ==
    \A i \in Inv :
        (args[i].tool = "listPods" /\ args[i].labelSelector # Absent /\ Len(reqs[i]) >= 2)
        => \/ Contains(reqs[i][2].url, <<args[i].labelSelector>>)
           \/ Contains(reqs[i][2].filter, <<args[i].labelSelector>>)

\* C12: every assertion the token step builds has exp = iat + 3600 exactly,
\* iat the current epoch time in whole seconds (the second the clock is in),
\* iss the credential's client_email and aud the token endpoint's URL.
C12_AssertionClaims ==
    \A i \in Inv : \A k \in 1..Len(reqs[i]) :
        reqs[i][k].ep = "token"
        => LET c == reqs[i][k].claims
           IN  /\ c.exp = c.iat + 3600
               /\ c.iat * 1000 <= clock /\ clock < (c.iat + 1) * 1000
               /\ c.iss = config.serviceAccountKey.client_email
               /\ <<c.aud>> = TokenUrl /\ reqs[i][k].url = TokenUrl

\* C12's case: an assertion was built in the second half of a second.
C12_Witness ==
    \E i \in Inv :
        /\ Len(reqs[i]) >= 1 /\ reqs[i][1].ep = "token" /\ reqs[i][1].claims.iss = "sa@proj.iam"
        /\ clock = 1500 /\ reqs[i][1].claims.exp = 3601

\* The alphabet of base64url, and the sextet a character stands for.
C13_UrlAlphabet == [Base64Alphabet EXCEPT ![63] = "-", ![64] = "_"]
C13_Sextet(c) == (CHOOSE n \in 1..64 : C13_UrlAlphabet[n] = c) - 1

\* Decoding of unpadded base64url: four characters give three bytes, a last
\* group of two or three characters gives one or two.
RECURSIVE C13_Decode(_)
C13_Decode(text) ==
    IF Len(text) < 2 THEN <<>>
    ELSE LET a == C13_Sextet(text[1])
             b == C13_Sextet(text[2])
         IN  IF Len(text) = 2 THEN <<a * 4 + b \div 16>>
             ELSE LET c == C13_Sextet(text[3])
                  IN  IF Len(text) = 3 THEN <<a * 4 + b \div 16, (b % 16) * 16 + c \div 4>>
                      ELSE <<a * 4 + b \div 16, (b % 16) * 16 + c \div 4,
                             (c % 4) * 64 + C13_Sextet(text[4])>>
                           \o C13_Decode(SubSeq(text, 5, Len(text)))

\* C13: the output of base64UrlEncode contains none of the characters +, /
\* and =, and decoding it gives back the bytes that were encoded.
C13_RoundTripUrlSafe ==
    encoded.done
    => /\ \A k \in 1..Len(encoded.text) : encoded.text[k] \notin {"+", "/", "="}
       /\ C13_Decode(encoded.text) = input

\* C13's case: bytes whose base64 has a +, a / and padding were encoded.
C13_Witness ==
    /\ encoded.done /\ input = <<251, 255>>
    /\ encoded.text = <<"-", "_", "8">>

\* The spellings of kind k: singular and plural, in each casing.
C14_Spellings(k) ==
    CASE k = "pod" -> {"pod", "Pod", "POD", "pods", "Pods", "PODS"}
      [] k = "deployment" -> {"deployment", "Deployment", "DEPLOYMENT",
                              "deployments", "Deployments", "DEPLOYMENTS"}
      [] k = "service" -> {"service", "Service", "SERVICE", "services", "Services", "SERVICES"}
      [] k = "ingress" -> {"ingress", "Ingress", "INGRESS", "ingresses", "Ingresses", "INGRESSES"}

\* The path of kind k's resource name in namespace ns.
C14_Path(k, ns, name) ==
    CASE k = "pod" -> <<"/api/v1/namespaces/", ns, "/pods/", name>>
      [] k = "deployment" -> <<"/apis/apps/v1/namespaces/", ns, "/deployments/", name>>
      [] k = "service" -> <<"/api/v1/namespaces/", ns, "/services/", name>>
      [] k = "ingress" -> <<"/apis/networking.k8s.io/v1/namespaces/", ns, "/ingresses/", name>>

\* C14: describeResource requests the path of the kind whatever the letter
\* case and whether the kind is spelled singular or plural: once the token and
\* the cluster lookup have succeeded, every spelling of pod, deployment,
\* service and ingress requests the kind's one path under the cluster's
\* endpoint; for service my-svc in apps that is
\* /api/v1/namespaces/apps/services/my-svc.
C14_PathIgnoresCaseAndNumber ==
    \A i \in Inv : \A k \in {"pod", "deployment", "service", "ingress"} :
        (args[i].tool = "describeResource" /\ args[i].kind \in C14_Spellings(k)
            /\ Len(resps[i]) >= 2 /\ resps[i][2].kind = "ok" /\ resps[i][2].json)
        => /\ Len(reqs[i]) = 3
           /\ reqs[i][3].url = <<"https://", resps[i][2].endpoint>>
                                   \o C14_Path(k, args[i].namespace, args[i].name)
           /\ (k = "service" /\ args[i].name = "my-svc" /\ args[i].namespace = "apps")
              => SubSeq(reqs[i][3].url, 3, 6) = <<"/api/v1/namespaces/", "apps", "/services/", "my-svc">>

\* C14's case: describeResource has requested a resource whose kind was
\* given in the plural and in upper case.
C14_Witness ==
    \E i \in Inv :
        /\ args[i].tool = "describeResource" /\ args[i].kind = "SERVICES"
        /\ Len(reqs[i]) = 3 /\ reqs[i][3].ep = "k8s"

\* C15: queryCloudLogs returns the empty array, and does not fail, whenever
\* the 2xx response carries no entries (no entries key, or an empty list); it
\* issues a token exchange and one entries:list request and nothing else,
\* never a cluster lookup.
C15_NoEntriesIsEmptyResult ==
    \A i \in Inv :
        args[i].tool = "queryCloudLogs"
        => /\ Len(reqs[i]) <= 2
           /\ \A k \in 1..Len(reqs[i]) : reqs[i][k].ep = IF k = 1 THEN "token" ELSE "logging"
           /\ (Len(resps[i]) = 2 /\ resps[i][2].kind = "ok" /\ resps[i][2].json
                  /\ (~resps[i][2].hasEntries \/ Len(resps[i][2].entries) = 0))
              => /\ pc[i] = "done" /\ out[i].status = "ok" /\ out[i].kind = "logs"
                 /\ out[i].logs = <<>>
                 /\ res[i].returned /\ ~res[i].isError /\ res[i].json.logs = <<>>

\* C15's case: queryCloudLogs got the body {} from entries:list.
C15_Witness ==
    \E i \in Inv :
        /\ args[i].tool = "queryCloudLogs" /\ pc[i] = "done"
        /\ Len(resps[i]) = 2 /\ resps[i][2] = NoEntries

\* C16: listPods on a response with zero items returns items [] and total
\* 0, and for every response the returned total is the number of elements
\* of the returned items.
C16_TotalCountsItems ==
    \A i \in Inv :
        (args[i].tool = "listPods" /\ Len(resps[i]) = 2 /\ resps[i][2].kind = "ok" /\ resps[i][2].json)
        => /\ pc[i] = "done" /\ out[i].status = "ok" /\ out[i].kind = "pods"
           /\ out[i].total = Len(out[i].items)
           /\ (\A k \in 1..Len(resps[i][2].entries) : resps[i][2].entries[k].pod_name = Absent)
              => out[i].items = <<>> /\ out[i].total = 0
           /\ res[i].json = out[i]

\* C16's case: listPods got a response with an entry but with no pod in it.
C16_Witness ==
    \E i \in Inv :
        /\ args[i].tool = "listPods" /\ pc[i] = "done" /\ out[i].status = "ok"
        /\ resps[i][2].entries = <<E3>> /\ out[i].total = 0

C18_KeyNeverInResult ==
    \A i \in Inv :
        LET raw == config.serviceAccountKey.raw
        IN  \A k \in 1..Len(raw) :
                /\ ~Contains(out[i].msg, <<raw[k]>>)
                /\ ~Contains(out[i].text, <<raw[k]>>)
                /\ ~Contains(res[i].text, <<raw[k]>>)

(***************************************************************************)
(* Claims about the server's tools                                         *)
(***************************************************************************)
\* C19: the server registers the four GCP tools if and only if
\* GCP_SERVICE_ACCOUNT_KEY is set to a non-empty value (all four or none);
\* hello, echo and server_info are registered in both cases; server_info's
\* gcpEnabled is true exactly when the GCP tools are registered.
C19_GcpToolsIffKeySet ==
    LET key == env.GCP_SERVICE_ACCOUNT_KEY
        four == {"get_pods", "get_pod_logs", "describe_resource", "query_cloud_logs"}
    IN  /\ (key.present /\ key.raw # <<>>) => four \subseteq registered
        /\ ~(key.present /\ key.raw # <<>>) => four \cap registered = {}
        /\ {"hello", "echo", "server_info"} \subseteq registered
        /\ info.returned => (info.gcpEnabled <=> four \subseteq registered)
        /\ \A i \in Inv : res[i].returned => four \subseteq registered

\* C19's case: server_info was called on a server whose key is set to the
\* empty string.
C19_Witness ==
    /\ info.returned /\ ~info.gcpEnabled
    /\ env.GCP_SERVICE_ACCOUNT_KEY.present /\ env.GCP_SERVICE_ACCOUNT_KEY.raw = <<>>

(***************************************************************************)
(* Claims about the user service                                           *)
(***************************************************************************)
\* C20: every /api/users/me endpoint (GET, PUT, DELETE, POST
\* avatar/upload-url) answers a request whose x-auth-request-user header is
\* absent or empty with 401 'No authenticated user', runs no database query
\* for it and changes no user row.
C20_UnauthenticatedIs401 ==
    [][(served' = served + 1 /\ last'.path # "/health" /\ last'.user \in {Absent, ""})
       => /\ last'.status = 401 /\ last'.error = "No authenticated user"
          /\ last'.queries = 0
          /\ users' = users]_vars

\* C20's case: a DELETE with an empty header was answered 401 while a row
\* exists.
C20_Witness ==
    /\ last.method = "DELETE" /\ last.user = "" /\ last.status = 401
    /\ \E e \in Emails : users[e] # NoRow

\* C21: a PUT /api/users/me with an authenticated email whose body provides
\* none of display_name, avatar_url and metadata is answered 400 'No fields
\* to update' and leaves every user row unchanged; a PUT answered 200 has set
\* exactly the provided fields of the caller's row to the provided values and
\* has left the row's other profile fields, its email and created_at, and
\* every other row as they were.
C21_PutChangesProvidedFields ==
    [][(served' = served + 1 /\ last'.method = "PUT" /\ last'.user \notin {Absent, ""})
       => LET body == last'.asked
              email == last'.user
              provided(field) == body[field].type # "undefined"
          IN  /\ (\A field \in {"display_name", "avatar_url", "metadata"} : ~provided(field))
                    => /\ last'.status = 400 /\ last'.error = "No fields to update"
                       /\ users' = users
              /\ last'.status = 200
                    => /\ users[email] # NoRow
                       /\ \A field \in {"display_name", "avatar_url", "metadata"} :
                            users'[email][field] = IF provided(field) THEN body[field].text
                                                  ELSE users[email][field]
                       /\ users'[email].email = email
                       /\ users'[email].created_at = users[email].created_at
                       /\ last'.row = users'[email]
                       /\ \A other \in DOMAIN users \ {email} : users'[other] = users[other]]_vars

\* C21's case: a PUT that provided only display_name was answered 200 on a
\* row whose metadata an earlier PUT had set.
C21_Witness ==
    /\ last.method = "PUT" /\ last.status = 200
    /\ last.asked = Body(Value("string", "Al", 4), Undefined, Undefined)
    /\ users[last.user].display_name = "Al"
    /\ users[last.user].metadata = "{\"theme\":\"dark\"}"

\* C22 (as claimed): a GET /api/users/me with an authenticated email that
\* is answered 200 returns the caller's row, created with display_name =
\* email when there was none, and leaves every stored column of a row that
\* existed as it was; the table holds one row for that email afterwards.
C22_GetKeepsExistingRow ==
    [][(served' = served + 1 /\ last'.method = "GET" /\ last'.path = "/api/users/me"
            /\ last'.status = 200)
       => LET email == last'.user
          IN  /\ users'[email] # NoRow /\ users'[email].email = email
              /\ last'.row = users'[email]
              /\ users[email] = NoRow => users'[email].display_name = email
              /\ users[email] # NoRow => users'[email] = users[email]]_vars

\* C23: in the current user service a request carrying
\* x-auth-request-user = A reads, creates, modifies or deletes only the row
\* whose email is A: whatever the request, the row of every other email is
\* left as it was and the row in the response, if any, is A's.
C23_OnlyOwnRow ==
    [][(served' = served + 1)
       => /\ \A other \in DOMAIN users :
                other # last'.user => users'[other] = users[other]
          /\ last'.row # NoRow => last'.row.email = last'.user]_vars

\* C23's case: alice's DELETE was answered 200 while bob has a row.
C23_Witness ==
    /\ last.method = "DELETE" /\ last.status = 200 /\ last.user = "alice@example.com"
    /\ users["alice@example.com"] = NoRow
    /\ users["bob@example.com"] # NoRow

\* C27 (as claimed): a PUT /api/users/me with an authenticated email is
\* answered 400 and changes no user row when display_name or avatar_url is
\* given and not a string, when metadata is given and not an object (a
\* string, a number, a boolean, an array or null: 400 'metadata must be an
\* object' when the two strings are acceptable), or when the JSON text of
\* metadata is longer than 10000 characters.
C27_RejectsInvalidFields ==
    [][(served' = served + 1 /\ last'.method = "PUT" /\ last'.user \notin {Absent, ""})
       => LET body == last'.asked
              badString(field) == body[field].type \notin {"undefined", "string"}
              badMetadata == body.metadata.type \notin {"undefined", "object"}
              tooLarge == body.metadata.type # "undefined" /\ body.metadata.length > 10000
          IN  /\ (badString("display_name") \/ badString("avatar_url") \/ badMetadata \/ tooLarge)
                    => last'.status = 400 /\ users' = users
              /\ (badMetadata /\ ~badString("display_name") /\ ~badString("avatar_url"))
                    => last'.error = "metadata must be an object"]_vars

C24_NotANumber == {Param(<<>>), Param(<<"a", "b", "c">>)}

\* C24: in the user service that offers GET /api/users, the page size used
\* for the query is 50 when the limit parameter is missing or not a number
\* and is at most 100 whatever the parameter, the offset is 0 when the
\* parameter is missing, no more rows than the page size are returned, and
\* the pagination object of a 200 response holds the limit and the offset
\* the query was run with and the number of rows the table has when it is
\* counted.
C24_PaginationEchoesUsedValues ==
    [][(listing' # listing)
       => /\ (listing'.limitParam \in {Missing} \cup C24_NotANumber) => listing'.limit = 50
          /\ listing'.limit <= 100
          /\ listing'.offsetParam = Missing => listing'.offset = 0
          /\ listing'.status = 200
                => /\ listing.pc = "count"
                   /\ Len(listing'.users) <= listing'.limit
                   /\ listing'.limit = listing.limit /\ listing'.offset = listing.offset
                   /\ listing'.users = listing.users
                   /\ listing'.pagination =
                        [limit |-> listing.limit, offset |-> listing.offset,
                         total |-> Cardinality({e \in DOMAIN users : users[e] # NoRow})]]_vars

\* C24's case: GET /api/users?limit=500 was answered with both rows of the
\* table and a pagination object that names the page size 100.
C24_Witness ==
    /\ listing.pc = "done" /\ listing.status = 200
    /\ listing.limitParam = Param(<<"5", "0", "0">>)
    /\ Len(listing.users) = 2
    /\ listing.pagination = [limit |-> 100, offset |-> 0, total |-> 2]

(***************************************************************************)
(* Further claims about the OAuth handler                                  *)
(***************************************************************************)
\* The callbacks that have called completeAuthorization.
C25_Completed == {c \in Cb : \E call \in completions : call.by = c}

\* C25 (as claimed): a state key stored by /authorize is single-use.
\* Whatever the interleaving of the /callback requests that carry it,
\* completeAuthorization is called at most once for it, its entry is gone
\* from KV when completeAuthorization is called, and a callback that arrives
\* with it after such a call is answered 400 'Invalid or expired state'.
C25_StateKeySingleUse ==
    [][/\ \A c, d \in C25_Completed' : cb'[c].state = cb'[d].state => c = d
       /\ \A c \in Cb : cb'[c].pc = "complete" => kv'[cb'[c].state] = NoAuthRequest
       /\ \A c \in Cb :
            (cb[c].pc = "idle" /\ cb'[c].pc # "idle"
                /\ \E d \in C25_Completed : cb[d].state = cb'[c].state)
            => /\ cb'[c].pc = "done"
               /\ cb'[c].response.status = 400
               /\ (cb'[c].error = Absent /\ cb'[c].code # Absent)
                    => cb'[c].response = HttpResponse(400, <<"Invalid or expired state">>)]_vars

\* The /callback queries that are rejected at once, given the KV store.
C26_Rejected(query, store) ==
    \/ query.error # Absent
    \/ query.code = Absent
    \/ query.state = 0
    \/ store[query.state] = NoAuthRequest

\* C26: the OAuth handler rejects bad requests before any side effect.
\* /authorize for a client id lookupClient does not know is answered 400 and
\* stores nothing in KV; /callback with an error parameter, without code or
\* state, or with a state that has no stored entry is answered 400 at once,
\* before any request to Google, leaves KV alone and never calls
\* completeAuthorization; and the request handed to completeAuthorization has
\* the clientId, redirectUri, state, scope, codeChallenge and
\* codeChallengeMethod of the request parsed at the /authorize that issued
\* the callback's state key.
C26_RejectsBeforeSideEffects ==
    [][/\ \A answer \in authorized' :
            answer.clientId \notin RegisteredClients
            => answer.status = 400 /\ answer.stateKey = 0
       /\ (\E answer \in authorized' \ authorized : answer.status = 400) => kv' = kv
       /\ \A k \in StateKeys : kv'[k].clientId \in RegisteredClients \cup {Absent}
       /\ \A c \in Cb :
            (cb[c].pc = "idle" /\ cb'[c].pc # "idle" /\ C26_Rejected(cb'[c], kv))
            => /\ cb'[c].pc = "done" /\ cb'[c].response.status = 400
               /\ cb'[c].access_token = Absent /\ cb'[c].userInfo = NoUser
               /\ kv' = kv /\ completions' = completions
       /\ \A call \in completions' :
            /\ cb'[call.by].error = Absent /\ cb'[call.by].code # Absent
            /\ \E answer \in authorized', parsed \in AuthRequests :
                /\ answer.status = 302 /\ answer.stateKey = cb'[call.by].state
                /\ parsed.clientId = answer.clientId
                /\ \A field \in {"clientId", "redirectUri", "state", "scope", "codeChallenge",
                                  "codeChallengeMethod"} :
                        call.request[field] = parsed[field]
                /\ call.scope = parsed.scope]_vars

\* C26's case: /authorize has answered the unknown client 400, one callback
\* has completed the authorization of the client that sent PKCE values and
\* another one, arriving with the used state, was answered 400.
C26_Witness ==
    /\ \E answer \in authorized : answer.clientId = "ghost" /\ answer.status = 400
    /\ \E call \in completions : call.request.codeChallenge = "chal-A"
    /\ \E c \in Cb : cb[c].response = HttpResponse(400, <<"Invalid or expired state">>)

====
